---- MODULE Spec2Model ----
(***************************************************************************)
(* Reconciliation engine of the Obsidian Google Drive sync plugin:         *)
(* performSync and the operations it calls, the timers and commands that   *)
(* trigger it, and the two file stores it reconciles.                      *)
(*                                                                         *)
(* Time is in milliseconds.  Every await of performSync is a point where   *)
(* other handlers, other runs and the outside world may act; the steps of  *)
(* a run are the stretches of code between those points.                   *)
(***************************************************************************)
EXTENDS Integers, Sequences, FiniteSets, TLC

\* ---------------------------------------------------------------- bounds
MaxRuns  == 2    \* calls of performSync explored, one after the other
MaxEdits == 2    \* events from outside: file mutations, settings changes
MaxTicks == 2    \* advances of the clock
MaxIds   == 4    \* remote object ids the store hands out
MaxFaults == 1   \* calls that fail: token requests, remote calls
OverlapEdits == 2   \* outside events while runs overlap
OverlapTicks == 1   \* advances of the clock while runs overlap
LifeEdits == 3      \* outside events while the plugin is set up and torn down
OracleEdits == 1    \* outside events while contents are compared
SharedEdits == 2    \* outside events while runs share the folder cache
SetupEdits == 4     \* outside events while the plugin is being configured

\* ------------------------------------------------------ program constants
SLACK  == 2000                    \* the "2 second buffer" of performSync
RootId == 0                       \* settings.folderId, the sync root

T0        == 10000                \* the clock when the plugin is loaded
DEBOUNCE  == 5000                 \* setTimeout(() => this.performSync(), 5000)
TickSteps == {1000, DEBOUNCE}     \* one step inside the buffer, one beyond it

Ids  == 1..MaxIds

\* ------------------------------------------------------------ file names
\* A relative path: the directory segments, then base name and extension.
FileA == [dir |-> <<>>,    base |-> "a", ext |-> "md"]     \* a.md
FileB == [dir |-> <<"n">>, base |-> "b", ext |-> "md"]     \* n/b.md
FileC == [dir |-> <<"n">>, base |-> "c", ext |-> "png"]    \* n/c.png
FileD == [dir |-> <<"n", "m">>, base |-> "d", ext |-> "md"]   \* n/m/d.md
PathOrder == <<FileA, FileB, FileC, FileD>>   \* the order vault.getFiles() lists in

Contents == {"X", "Y"}
Size(c)  == Len(c)

Policies == {"overwrite", "keep-local", "keep-remote", "ask"}

getMimeType(ext) ==
    CASE ext = "md"   -> "text/markdown"
      [] ext = "txt"  -> "text/plain"
      [] ext = "json" -> "application/json"
      [] ext = "png"  -> "image/png"
      [] ext = "jpg"  -> "image/jpeg"
      [] ext = "jpeg" -> "image/jpeg"
      [] ext = "gif"  -> "image/gif"
      [] ext = "svg"  -> "image/svg+xml"
      [] ext = "pdf"  -> "application/pdf"
      [] OTHER        -> "application/octet-stream"

\* mimeType.startsWith(type) for one of the text types
TextTypes == {"text/markdown", "text/plain", "application/json"}
isBinaryFile(mimeType) == mimeType \notin TextTypes

\* createHash('md5').update(content).digest('hex'): a digest of the content
md5(c) == <<"md5", Size(c), c>>

\* ------------------------------------------------------------ the stores
NoFile == [mtime |-> -1, content |-> ""]
NoObj  == [kind |-> "none", parent |-> RootId, base |-> "", ext |-> "",
           mtime |-> 0, content |-> ""]
NoEntry == [id |-> -1, path |-> FileA, mtime |-> 0, size |-> 0]

ValidToken == "token"

VARIABLES
    now,            \* Date.now() and the remote store's clock
    vault,          \* the local store: path -> [mtime, content] or NoFile
    drive,          \* the remote store: id -> object or NoObj
    nextId,         \* the next id the remote store hands out
    settings,       \* lastSyncTime, conflictResolution, autoSync, credentials
    folderIdCache,  \* this.folderIdCache: directory path -> folder id
    timers,         \* syncIntervalId, syncTimeoutId and the registered listeners
    statusBar,      \* statusBarItem's text and whether syncAnimationId runs
    modals,         \* open ConflictModals with their two continuations
    runs,           \* the calls of performSync, by run id
    build,          \* the source file the plugin is built from
    edits, ticks,   \* the outside events and clock advances still explored
    faults          \* the failing calls still explored

vars == <<now, vault, drive, nextId, settings, folderIdCache, timers, statusBar,
          modals, runs, build, edits, ticks, faults>>

Runs  == DOMAIN runs
Paths == DOMAIN vault      \* the paths a specification explores

\* ------------------------------------------------------- small utilities
Min(S) == CHOOSE x \in S : \A y \in S : x <= y

RECURSIVE SetToSeq(_)
SetToSeq(S) == IF S = {} THEN <<>> ELSE <<Min(S)>> \o SetToSeq(S \ {Min(S)})

EmptyMap == [x \in {} |-> 0]
Put(m, k, v) == [x \in (DOMAIN m) \cup {k} |-> IF x = k THEN v ELSE m[x]]

DirOf(path)  == path.dir
FolderKey(d) == [dir |-> d, base |-> "", ext |-> ""]

\* ------------------------------------------------------ remote listing
Children(drv, folderId) ==
    {i \in Ids : drv[i].kind # "none" /\ drv[i].parent = folderId}

\* One page of files().list per folder, folders entered as they are met;
\* a file's path is the names of its ancestors, then its own.
RECURSIVE getDriveItemsRecursive(_, _, _)
getDriveItemsRecursive(drv, folderId, currentPath) ==
    LET items == SetToSeq(Children(drv, folderId))
        RECURSIVE Each(_)
        Each(k) ==
            IF k > Len(items) THEN <<>>
            ELSE LET item == drv[items[k]] IN
                 (IF item.kind = "folder"
                  THEN getDriveItemsRecursive(drv, items[k],
                                              Append(currentPath, item.base))
                  ELSE << [id    |-> items[k],
                           path  |-> [dir |-> currentPath, base |-> item.base,
                                      ext |-> item.ext],
                           mtime |-> item.mtime,
                           size  |-> Size(item.content)] >>)
                 \o Each(k + 1)
    IN Each(1)

getDriveFilesRecursive(drv) == getDriveItemsRecursive(drv, RootId, <<>>)

\* new Map(); for (file of files) map.set(file.path, file): the last entry wins
RECURSIVE MapGet(_, _, _)
MapGet(files, path, k) ==
    IF k = 0 THEN NoEntry
    ELSE IF files[k].path = path THEN files[k] ELSE MapGet(files, path, k - 1)

driveFileMapGet(driveFiles, path) == MapGet(driveFiles, path, Len(driveFiles))
vaultFileMapGet(vaultFiles, path) == MapGet(vaultFiles, path, Len(vaultFiles))

\* this.app.vault.getFiles()
RECURSIVE ListVault(_, _)
ListVault(vlt, k) ==
    IF k > Len(PathOrder) THEN <<>>
    ELSE (IF PathOrder[k] \notin DOMAIN vlt \/ vlt[PathOrder[k]] = NoFile THEN <<>>
          ELSE << [id    |-> 0,
                   path  |-> PathOrder[k],
                   mtime |-> vlt[PathOrder[k]].mtime,
                   size  |-> Size(vlt[PathOrder[k]].content)] >>)
         \o ListVault(vlt, k + 1)

getFiles(vlt) == ListVault(vlt, 1)

\* ---------------------------------------------------- effects of a step
\* The operations below are written as functions of a "world": the stores,
\* the folder cache and the open modals as the step found them, the calls it
\* has issued so far (ops), whether it is still running normally (ok: FALSE
\* after a throw), and the value the last call returned (ret).
NoId == -1

World == [vault |-> vault, drive |-> drive, nextId |-> nextId,
          cache |-> folderIdCache, modals |-> modals,
          ops |-> <<>>, verdicts |-> <<>>,
          uploaded |-> 0, downloaded |-> 0, deleted |-> 0, conflicts |-> 0,
          ok |-> TRUE, capped |-> FALSE, ret |-> NoId]

Throw(w) == [w EXCEPT !.ok = FALSE]
Verdict(w, loop, path, kind) ==
    [w EXCEPT !.verdicts = Append(@, [loop |-> loop, path |-> path, kind |-> kind])]
Log(w, op, path, id, ok) ==
    [w EXCEPT !.ops = Append(@, [op |-> op, path |-> path, id |-> id, ok |-> ok])]

\* The 'Authorization: Bearer ...' header is accepted
Authorized(accessToken) == accessToken = ValidToken

Failures == {"none", "find", "mkdir", "transfer", "compare", "token"}

\* ------------------------------------------------ Folder Path Materializer
findDriveFolder(w, folderName, parentId, accessToken, fail) ==
    LET found == {i \in Ids : /\ w.drive[i].kind = "folder"
                              /\ w.drive[i].base = folderName
                              /\ w.drive[i].parent = parentId}
    IN IF fail = "find" \/ ~Authorized(accessToken) THEN NoId   \* logs, null
       ELSE IF found = {} THEN NoId ELSE Min(found)

createDriveFolder(w, folderName, parentId, where, accessToken, fail) ==
    IF fail = "mkdir" \/ ~Authorized(accessToken)
    THEN Throw(Log(w, "mkdir", FolderKey(where), NoId, FALSE))
    ELSE IF w.nextId > MaxIds THEN [w EXCEPT !.capped = TRUE]
    ELSE Log([w EXCEPT !.drive[w.nextId] =
                           [kind |-> "folder", parent |-> parentId,
                            base |-> folderName, ext |-> "",
                            mtime |-> now, content |-> ""],
                       !.nextId = @ + 1,
                       !.ret = w.nextId],
             "mkdir", FolderKey(where), w.nextId, TRUE)

\* The walk over the segments with neither the cache nor the search consulted
RECURSIVE ensureSegmentsUnchecked(_, _, _, _, _, _)
ensureSegmentsUnchecked(w, segments, k, currentParentId, accessToken, fail) ==
    IF k > Len(segments) THEN [w EXCEPT !.ret = currentParentId]
    ELSE
      LET currentPath == SubSeq(segments, 1, k)
          w2 == createDriveFolder(w, segments[k], currentParentId,
                                  currentPath, accessToken, fail)
      IN IF ~w2.ok \/ w2.capped THEN w2
         ELSE ensureSegmentsUnchecked([w2 EXCEPT !.cache = Put(@, currentPath, w2.ret)],
                                      segments, k + 1, w2.ret, accessToken, fail)

RECURSIVE ensureSegments(_, _, _, _, _, _)
ensureSegments(w, segments, k, currentParentId, accessToken, fail) ==
    IF k > Len(segments) THEN [w EXCEPT !.ret = currentParentId]
    ELSE
      LET currentPath == SubSeq(segments, 1, k) IN
      IF currentPath \in DOMAIN w.cache
      THEN ensureSegments(w, segments, k + 1, w.cache[currentPath],
                          accessToken, fail)
      ELSE
        LET existingFolderId ==
                findDriveFolder(w, segments[k], currentParentId, accessToken, fail)
            \* a search that is answered with an error is a call that failed
            w1 == IF fail = "find" \/ ~Authorized(accessToken)
                  THEN Log(w, "find", FolderKey(currentPath), NoId, FALSE)
                  ELSE w
        IN IF existingFolderId # NoId
           THEN ensureSegments([w1 EXCEPT !.cache = Put(@, currentPath, existingFolderId)],
                               segments, k + 1, existingFolderId, accessToken, fail)
           ELSE
             LET w2 == createDriveFolder(w1, segments[k], currentParentId,
                                         currentPath, accessToken, fail)
             IN IF ~w2.ok \/ w2.capped THEN w2
                ELSE ensureSegments([w2 EXCEPT !.cache = Put(@, currentPath, w2.ret)],
                                    segments, k + 1, w2.ret, accessToken, fail)

ensureFolderPathExists(w, localPath, accessToken, fail) ==
    IF localPath \in DOMAIN w.cache THEN [w EXCEPT !.ret = w.cache[localPath]]
    ELSE IF localPath = <<>> THEN [w EXCEPT !.ret = RootId]
    ELSE ensureSegments(w, localPath, 1, RootId, accessToken, fail)

\* ----------------------------------------------------------- transfers
\* The upload with fileId disregarded: always a POST of a new object
uploadAlwaysCreates(w, path, accessToken, parentFolderId, fileId, fail) ==
    IF w.vault[path] = NoFile THEN Throw(w)
    ELSE IF fail = "transfer" \/ ~Authorized(accessToken)
              \/ (parentFolderId # RootId /\ w.drive[parentFolderId].kind # "folder")
         THEN Throw(Log(w, "create", path, NoId, FALSE))
         ELSE IF w.nextId > MaxIds THEN [w EXCEPT !.capped = TRUE]
         ELSE Log([w EXCEPT !.drive[w.nextId] =
                                [kind |-> "file", parent |-> parentFolderId,
                                 base |-> path.base, ext |-> path.ext,
                                 mtime |-> now,
                                 content |-> w.vault[path].content],
                            !.nextId = @ + 1,
                            !.ret = w.nextId],
                  "create", path, w.nextId, TRUE)

\* PATCH of the content of fileId when given, else a multipart POST of a new
\* object under parentFolderId.  vault.read of a file that is gone rejects.
uploadFileToFolder(w, path, accessToken, parentFolderId, fileId, fail) ==
    IF w.vault[path] = NoFile THEN Throw(w)
    ELSE IF fileId # NoId
    THEN IF fail = "transfer" \/ ~Authorized(accessToken)
              \/ w.drive[fileId].kind # "file"
         THEN Throw(Log(w, "update", path, fileId, FALSE))
         ELSE Log([w EXCEPT !.drive[fileId].content = w.vault[path].content,
                            !.drive[fileId].mtime = now],
                  "update", path, fileId, TRUE)
    ELSE IF fail = "transfer" \/ ~Authorized(accessToken)
              \/ (parentFolderId # RootId /\ w.drive[parentFolderId].kind # "folder")
         THEN Throw(Log(w, "create", path, NoId, FALSE))
         ELSE IF w.nextId > MaxIds THEN [w EXCEPT !.capped = TRUE]
         ELSE Log([w EXCEPT !.drive[w.nextId] =
                                [kind |-> "file", parent |-> parentFolderId,
                                 base |-> path.base, ext |-> path.ext,
                                 mtime |-> now,
                                 content |-> w.vault[path].content],
                            !.nextId = @ + 1,
                            !.ret = w.nextId],
                  "create", path, w.nextId, TRUE)

\* vault.adapter.mkdir of every prefix of the folder path, the first one
\* first; the error of a folder that exists is ignored
RECURSIVE ensureLocalFolderExists(_, _, _)
ensureLocalFolderExists(w, segments, k) ==
    IF k > Len(segments) THEN w
    ELSE ensureLocalFolderExists(
             Log(w, "localMkdir", FolderKey(SubSeq(segments, 1, k)), NoId, TRUE),
             segments, k + 1)

\* The download with the content fetched and never written
downloadFileUnwritten(w, driveFile, accessToken, fail) ==
    IF fail = "transfer" \/ ~Authorized(accessToken)
         \/ w.drive[driveFile.id].kind # "file"
    THEN Throw(Log(w, "download", driveFile.path, driveFile.id, FALSE))
    ELSE Log(w, "download", driveFile.path, driveFile.id, TRUE)

\* GET ?alt=media of driveFile.id, the local folders of driveFile.path, then
\* adapter.write to driveFile.path
downloadFile(w, driveFile, accessToken, fail) ==
    IF fail = "transfer" \/ ~Authorized(accessToken)
         \/ w.drive[driveFile.id].kind # "file"
    THEN Throw(Log(w, "download", driveFile.path, driveFile.id, FALSE))
    ELSE LET w1 == ensureLocalFolderExists(w, DirOf(driveFile.path), 1)
         IN Log([w1 EXCEPT !.vault[driveFile.path] =
                               [mtime |-> now,
                                content |-> w.drive[driveFile.id].content]],
                "download", driveFile.path, driveFile.id, TRUE)

\* ------------------------------------------------ Content Equality Oracle
\* No comparison at all, as in src/main.ts: every candidate is a conflict
NeverIdentical(w, vaultSize, driveFile, accessToken, fail) == FALSE

\* The comparison with a failed read or download answered 'identical'
identicalOnError(w, vaultSize, driveFile, accessToken, fail) ==
    LET driveSize == driveFile.size IN
    IF vaultSize # driveSize THEN FALSE
    ELSE IF vaultSize = 0 THEN TRUE
    ELSE IF isBinaryFile(getMimeType(driveFile.path.ext)) THEN TRUE
    ELSE IF w.vault[driveFile.path] = NoFile THEN TRUE
    ELSE IF fail = "compare" \/ ~Authorized(accessToken)
              \/ w.drive[driveFile.id].kind # "file" THEN TRUE
    ELSE md5(w.vault[driveFile.path].content) = md5(w.drive[driveFile.id].content)

\* The comparison with equal sizes taken as sufficient for every type
identicalWhenSameSize(w, vaultSize, driveFile, accessToken, fail) ==
    vaultSize = driveFile.size

filesHaveIdenticalContent(w, vaultSize, driveFile, accessToken, fail) ==
    LET driveSize == driveFile.size IN
    IF vaultSize # driveSize THEN FALSE
    ELSE IF vaultSize = 0 THEN TRUE
    ELSE IF isBinaryFile(getMimeType(driveFile.path.ext)) THEN TRUE
    ELSE IF w.vault[driveFile.path] = NoFile THEN FALSE
    ELSE IF fail = "compare" \/ ~Authorized(accessToken)
              \/ w.drive[driveFile.id].kind # "file" THEN FALSE
    ELSE md5(w.vault[driveFile.path].content) = md5(w.drive[driveFile.id].content)

\* ------------------------------------------------------ Conflict Resolver
\* The Resolver with 'keep-local' pushing the local version to the remote
handleConflictPushesLocal(w, r, driveFile, fail) ==
    LET freshAccessToken == ValidToken
        w0 == Log(w, "resolve", driveFile.path, driveFile.id, TRUE)
    IN
    IF fail = "token" THEN Throw(w0)
    ELSE CASE settings.conflictResolution \in {"overwrite", "keep-local"} ->
                LET w1 == ensureFolderPathExists(w0, DirOf(driveFile.path),
                                                 freshAccessToken, fail)
                IN IF ~w1.ok \/ w1.capped THEN w1
                   ELSE uploadFileToFolder(w1, driveFile.path, freshAccessToken,
                                           w1.ret, driveFile.id, fail)
           [] settings.conflictResolution = "keep-remote" ->
                downloadFile(w0, driveFile, freshAccessToken, fail)
           [] OTHER ->
                [Log(w0, "modal", driveFile.path, driveFile.id, TRUE)
                   EXCEPT !.modals = @ \cup {[run |-> r, driveFile |-> driveFile]}]

handleConflict(w, r, driveFile, fail) ==
    LET freshAccessToken == ValidToken
        w0 == Log(w, "resolve", driveFile.path, driveFile.id, TRUE)
    IN
    IF fail = "token" THEN Throw(w0)
    ELSE CASE settings.conflictResolution = "overwrite" ->
                LET w1 == ensureFolderPathExists(w0, DirOf(driveFile.path),
                                                 freshAccessToken, fail)
                IN IF ~w1.ok \/ w1.capped THEN w1
                   ELSE uploadFileToFolder(w1, driveFile.path, freshAccessToken,
                                           w1.ret, driveFile.id, fail)
           [] settings.conflictResolution = "keep-local" -> w0
           [] settings.conflictResolution = "keep-remote" ->
                downloadFile(w0, driveFile, freshAccessToken, fail)
           [] OTHER ->
                [Log(w0, "modal", driveFile.path, driveFile.id, TRUE)
                   EXCEPT !.modals = @ \cup {[run |-> r, driveFile |-> driveFile]}]

\* ------------------------------------------------- one file of each loop
\* The stat a loop reads from a TFile taken at getFiles(): the values at the
\* snapshot, or the file's present ones when the host has refreshed the object.
ObservedStats(w, file) ==
    {[mtime |-> file.mtime, size |-> file.size]}
    \cup (IF file = NoEntry \/ w.vault[file.path] = NoFile THEN {}
          ELSE {[mtime |-> w.vault[file.path].mtime,
                 size  |-> Size(w.vault[file.path].content)]})

\* The body of 'for (const file of vaultFiles)'
processVaultFile(w, r, file, stat, fail) ==
    LET run == runs[r]
        driveFile == driveFileMapGet(run.driveFiles, file.path)
        currentAccessToken == ValidToken
    IN
    IF ~run.toDrive THEN Verdict(w, "vault", file.path, "skip")
    ELSE IF driveFile = NoEntry
    THEN LET w0 == Verdict(w, "vault", file.path, "upload")
             w1 == ensureFolderPathExists(w0, DirOf(file.path),
                                          currentAccessToken, fail)
             w2 == uploadFileToFolder(w1, file.path, currentAccessToken,
                                      w1.ret, NoId, fail)
         IN IF ~w1.ok \/ w1.capped THEN w1
            ELSE IF ~w2.ok \/ w2.capped THEN w2
            ELSE [w2 EXCEPT !.uploaded = @ + 1]
    ELSE LET vaultChanged == stat.mtime > run.lastSync + SLACK
             driveChanged == driveFile.mtime > run.lastSync + SLACK
         IN
         IF vaultChanged /\ driveChanged
         THEN IF filesHaveIdenticalContent(w, stat.size, driveFile,
                                           currentAccessToken, fail)
              THEN Verdict(w, "vault", file.path, "identical")
              ELSE LET w1 == handleConflict(
                                 Verdict(w, "vault", file.path, "conflict"),
                                 r, driveFile, fail)
                   IN IF ~w1.ok \/ w1.capped THEN w1
                      ELSE [w1 EXCEPT !.conflicts = @ + 1]
         ELSE IF vaultChanged
         THEN LET w0 == Verdict(w, "vault", file.path, "upload")
                  w1 == ensureFolderPathExists(w0, DirOf(file.path),
                                               currentAccessToken, fail)
                  w2 == uploadFileToFolder(w1, file.path, currentAccessToken,
                                           w1.ret, driveFile.id, fail)
              IN IF ~w1.ok \/ w1.capped THEN w1
                 ELSE IF ~w2.ok \/ w2.capped THEN w2
                 ELSE [w2 EXCEPT !.uploaded = @ + 1]
         ELSE Verdict(w, "vault", file.path, "skip")

\* fetch(deleteUrl, {method: 'DELETE'}): a response that is not ok is logged
deleteDriveFile(w, driveFile, accessToken, fail) ==
    IF fail = "transfer" \/ ~Authorized(accessToken)
         \/ w.drive[driveFile.id].kind # "file"
    THEN Log(w, "delete", driveFile.path, driveFile.id, FALSE)
    ELSE [Log(w, "delete", driveFile.path, driveFile.id, TRUE)
            EXCEPT !.drive[driveFile.id] = NoObj, !.deleted = @ + 1]

\* The drive loop with the DELETE not guarded by toDrive
processDriveFileUngated(w, r, driveFile, stat, fail) ==
    LET run == runs[r]
        vaultFile == vaultFileMapGet(run.vaultFiles, driveFile.path)
        downloadAccessToken == ValidToken
    IN
    IF vaultFile = NoEntry
    THEN IF driveFile.mtime > run.lastSync + SLACK
         THEN LET w1 == downloadFile(Verdict(w, "drive", driveFile.path, "download"),
                                     driveFile, downloadAccessToken, fail)
              IN IF ~w1.ok THEN w1 ELSE [w1 EXCEPT !.downloaded = @ + 1]
         ELSE deleteDriveFile(Verdict(w, "drive", driveFile.path, "delete-remote"),
                              driveFile, downloadAccessToken, fail)
    ELSE LET driveChanged == driveFile.mtime > run.lastSync + SLACK
             vaultChanged == stat.mtime > run.lastSync + SLACK
         IN
         IF driveChanged /\ vaultChanged
         THEN Verdict(w, "drive", driveFile.path, "skip")
         ELSE IF driveChanged
         THEN LET w1 == downloadFile(Verdict(w, "drive", driveFile.path, "download"),
                                     driveFile, downloadAccessToken, fail)
              IN IF ~w1.ok THEN w1 ELSE [w1 EXCEPT !.downloaded = @ + 1]
         ELSE Verdict(w, "drive", driveFile.path, "skip")

\* The drive loop without its 'continue' for a path changed on both sides
processDriveFileAgain(w, r, driveFile, stat, fail) ==
    LET run == runs[r]
        vaultFile == vaultFileMapGet(run.vaultFiles, driveFile.path)
        downloadAccessToken == ValidToken
    IN
    IF vaultFile = NoEntry
    THEN IF driveFile.mtime > run.lastSync + SLACK
         THEN LET w1 == downloadFile(Verdict(w, "drive", driveFile.path, "download"),
                                     driveFile, downloadAccessToken, fail)
              IN IF ~w1.ok THEN w1 ELSE [w1 EXCEPT !.downloaded = @ + 1]
         ELSE IF run.toDrive
         THEN deleteDriveFile(Verdict(w, "drive", driveFile.path, "delete-remote"),
                              driveFile, downloadAccessToken, fail)
         ELSE Verdict(w, "drive", driveFile.path, "skip")
    ELSE IF driveFile.mtime > run.lastSync + SLACK
         THEN LET w1 == downloadFile(Verdict(w, "drive", driveFile.path, "download"),
                                     driveFile, downloadAccessToken, fail)
              IN IF ~w1.ok THEN w1 ELSE [w1 EXCEPT !.downloaded = @ + 1]
         ELSE Verdict(w, "drive", driveFile.path, "skip")

\* The body of 'for (const driveFile of driveFiles)', entered when fromDrive
processDriveFile(w, r, driveFile, stat, fail) ==
    LET run == runs[r]
        vaultFile == vaultFileMapGet(run.vaultFiles, driveFile.path)
        downloadAccessToken == ValidToken
    IN
    IF vaultFile = NoEntry
    THEN IF driveFile.mtime > run.lastSync + SLACK
         THEN LET w1 == downloadFile(Verdict(w, "drive", driveFile.path, "download"),
                                     driveFile, downloadAccessToken, fail)
              IN IF ~w1.ok THEN w1 ELSE [w1 EXCEPT !.downloaded = @ + 1]
         ELSE IF run.toDrive
         THEN deleteDriveFile(Verdict(w, "drive", driveFile.path, "delete-remote"),
                              driveFile, downloadAccessToken, fail)
         ELSE Verdict(w, "drive", driveFile.path, "skip")
    ELSE LET driveChanged == driveFile.mtime > run.lastSync + SLACK
             vaultChanged == stat.mtime > run.lastSync + SLACK
         IN
         IF driveChanged /\ vaultChanged
         THEN Verdict(w, "drive", driveFile.path, "skip")    \* continue
         ELSE IF driveChanged
         THEN LET w1 == downloadFile(Verdict(w, "drive", driveFile.path, "download"),
                                     driveFile, downloadAccessToken, fail)
              IN IF ~w1.ok THEN w1 ELSE [w1 EXCEPT !.downloaded = @ + 1]
         ELSE Verdict(w, "drive", driveFile.path, "skip")

\* ------------------------------------------------ src/main.ts, the
\* earlier source of the plugin: one flat listing of the sync folder, maps
\* keyed by file name, one access token for the whole run, no comparison of
\* contents.
NameOf(path) == [dir |-> <<>>, base |-> path.base, ext |-> path.ext]

\* files.list of the children of the sync folder, no recursion
getDriveFiles(drv) ==
    LET items == SetToSeq(Children(drv, RootId))
    IN [k \in 1..Len(items) |->
          [id    |-> items[k],
           path  |-> [dir |-> <<>>, base |-> drv[items[k]].base,
                      ext |-> drv[items[k]].ext],
           mtime |-> drv[items[k]].mtime,
           size  |-> Size(drv[items[k]].content)]]

\* vaultFileMap.set(file.name, file); vaultFileMap.get(driveFile.name)
RECURSIVE MapGetByName(_, _, _)
MapGetByName(files, name, k) ==
    IF k = 0 THEN NoEntry
    ELSE IF NameOf(files[k].path) = name THEN files[k]
    ELSE MapGetByName(files, name, k - 1)

\* uploadFile(drive, file, accessToken, fileId?): PATCH of fileId when it is
\* given, else POST of a new file whose parent is the sync folder
uploadFile(w, path, accessToken, fileId, fail) ==
    uploadFileToFolder(w, path, accessToken, RootId, fileId, fail)

\* handleConflict of main.ts. Under 'overwrite' the call is
\* uploadFile(drive, vaultFile, driveFile.id): the id of the remote file
\* stands where the access token is expected and no fileId is given.
handleConflictMain(w, r, file, driveFile, accessToken, fail) ==
    LET w0 == Log(w, "resolve", file.path, driveFile.id, TRUE) IN
    CASE settings.conflictResolution = "overwrite" ->
           uploadFile(w0, file.path, ToString(driveFile.id), NoId, fail)
      [] settings.conflictResolution = "keep-local" -> w0
      [] settings.conflictResolution = "keep-remote" ->
           downloadFile(w0, driveFile, accessToken, fail)
      [] OTHER ->
           [Log(w0, "modal", file.path, driveFile.id, TRUE)
              EXCEPT !.modals = @ \cup {[run |-> r, driveFile |-> driveFile]}]

\* The body of 'for (const file of vaultFiles)' in main.ts
processVaultFileMain(w, r, file, stat, fail) ==
    LET run == runs[r]
        driveFile == MapGetByName(run.driveFiles, NameOf(file.path),
                                  Len(run.driveFiles))
        accessToken == ValidToken
    IN
    IF ~run.toDrive THEN Verdict(w, "vault", file.path, "skip")
    ELSE IF driveFile = NoEntry
    THEN LET w1 == uploadFile(Verdict(w, "vault", file.path, "upload"),
                              file.path, accessToken, NoId, fail)
         IN IF ~w1.ok \/ w1.capped THEN w1 ELSE [w1 EXCEPT !.uploaded = @ + 1]
    ELSE LET vaultChanged == stat.mtime > run.lastSync + SLACK
             driveChanged == driveFile.mtime > run.lastSync + SLACK
         IN
         IF vaultChanged /\ driveChanged
         THEN LET w1 == handleConflictMain(
                            Verdict(w, "vault", file.path, "conflict"),
                            r, file, driveFile, accessToken, fail)
              IN IF ~w1.ok \/ w1.capped THEN w1
                 ELSE [w1 EXCEPT !.conflicts = @ + 1]
         ELSE IF vaultChanged
         THEN LET w1 == uploadFile(Verdict(w, "vault", file.path, "upload"),
                                   file.path, accessToken, driveFile.id, fail)
              IN IF ~w1.ok \/ w1.capped THEN w1
                 ELSE [w1 EXCEPT !.uploaded = @ + 1]
         ELSE Verdict(w, "vault", file.path, "skip")

\* The body of 'for (const driveFile of driveFiles)' in main.ts; the token is
\* requested again before a DELETE
processDriveFileMain(w, r, driveFile, stat, fail) ==
    LET run == runs[r]
        vaultFile == MapGetByName(run.vaultFiles, driveFile.path,
                                  Len(run.vaultFiles))
        accessToken == ValidToken
    IN
    IF vaultFile = NoEntry
    THEN IF driveFile.mtime > run.lastSync + SLACK
         THEN LET w1 == downloadFile(Verdict(w, "drive", driveFile.path, "download"),
                                     driveFile, accessToken, fail)
              IN IF ~w1.ok THEN w1 ELSE [w1 EXCEPT !.downloaded = @ + 1]
         ELSE IF run.toDrive
         THEN IF fail = "token"
              THEN Throw(Verdict(w, "drive", driveFile.path, "delete-remote"))
              ELSE deleteDriveFile(
                       Verdict(w, "drive", driveFile.path, "delete-remote"),
                       driveFile, accessToken, fail)
         ELSE Verdict(w, "drive", driveFile.path, "skip")
    ELSE LET driveChanged == driveFile.mtime > run.lastSync + SLACK
             vaultChanged == stat.mtime > run.lastSync + SLACK
         IN
         IF driveChanged /\ vaultChanged
         THEN Verdict(w, "drive", driveFile.path, "skip")
         ELSE IF driveChanged
         THEN LET w1 == downloadFile(Verdict(w, "drive", driveFile.path, "download"),
                                     driveFile, accessToken, fail)
              IN IF ~w1.ok THEN w1 ELSE [w1 EXCEPT !.downloaded = @ + 1]
         ELSE Verdict(w, "drive", driveFile.path, "skip")

\* A vault loop that mirrors remote absence: a file that the listing does not
\* show and that was not modified since the watermark is removed from the vault
VaultBodyPrunes(w, r, file, stat, fail) ==
    IF /\ build # "main.ts"
       /\ runs[r].toDrive
       /\ driveFileMapGet(runs[r].driveFiles, file.path) = NoEntry
       /\ stat.mtime <= runs[r].lastSync + SLACK
    THEN [Verdict(w, "vault", file.path, "skip") EXCEPT !.vault[file.path] = NoFile]
    ELSE IF build = "main.ts" THEN processVaultFileMain(w, r, file, stat, fail)
    ELSE processVaultFile(w, r, file, stat, fail)

\* The loop bodies of the source the plugin is built from
VaultBody(w, r, file, stat, fail) ==
    IF build = "main.ts" THEN processVaultFileMain(w, r, file, stat, fail)
    ELSE processVaultFile(w, r, file, stat, fail)

DriveBody(w, r, driveFile, stat, fail) ==
    IF build = "main.ts" THEN processDriveFileMain(w, r, driveFile, stat, fail)
    ELSE processDriveFile(w, r, driveFile, stat, fail)

\* ------------------------------------------------------ timers, settings
\* The timers of the plugin: the periodic timer is set or not; timeout counts
\* the debounce callbacks that are pending and due is when the one set last
\* will run; listeners counts the sets of create/modify/delete listeners
\* that registerEvent holds; loaded is cleared by onunload.
NoTimers ==
    [interval |-> FALSE, timeout |-> 0, due |-> 0, listeners |-> 0, loaded |-> TRUE]

\* clearTimeout(this.syncTimeoutId): the callback set last, if still pending
clearTimeout(tm) ==
    IF tm.timeout > 0
    THEN [tm EXCEPT !.timeout = @ - 1, !.due = IF tm.timeout = 1 THEN 0 ELSE @]
    ELSE tm

\* setupAutoSync: both timers are cleared; the interval timer and one more
\* set of create/modify/delete listeners are set up when auto-sync is
\* configured.
setupAutoSync(tm, st) ==
    LET cleared == [clearTimeout(tm) EXCEPT !.interval = FALSE]
    IN IF st.autoSync /\ st.refreshToken /\ st.folderId
       THEN [cleared EXCEPT !.interval = TRUE, !.listeners = @ + 1]
       ELSE cleared

\* A listener that sets its callback without clearing the one before
listenerKeepsPending(tm, st) ==
    IF st.autoSync
    THEN [tm EXCEPT !.timeout = @ + 1, !.due = now + DEBOUNCE]
    ELSE tm

\* One listener: if autoSync, clearTimeout, then
\* this.syncTimeoutId = setTimeout(() => this.performSync(), 5000)
listener(tm, st) ==
    IF st.autoSync
    THEN [clearTimeout(tm) EXCEPT !.timeout = @ + 1, !.due = now + DEBOUNCE]
    ELSE tm

\* A create, modify or delete event of the vault reaches the listener of
\* every set that was registered
RECURSIVE dispatch(_, _, _)
dispatch(tm, st, k) ==
    IF k = 0 THEN tm ELSE dispatch(listener(tm, st), st, k - 1)

onVaultEvent(tm, st) == dispatch(tm, st, tm.listeners)

\* onunload that leaves the debounce callback pending
onunloadKeepsTimeout(tm) ==
    [tm EXCEPT !.interval = FALSE, !.listeners = 0, !.loaded = FALSE]

\* onunload: clearInterval, clearTimeout; the listeners that registerEvent
\* holds are detached when the plugin unloads
onunload(tm) ==
    [clearTimeout(tm) EXCEPT !.interval = FALSE, !.listeners = 0, !.loaded = FALSE]

\* ------------------------------------------------------------ status bar
\* updateStatusBar(text): the text is set (the icon in front of it is left out)
updateStatusBar(bar, text) == [bar EXCEPT !.text = text]

\* startSyncAnimation: the frame timer is set; its callback writes the text
startSyncAnimation(bar) == [bar EXCEPT !.animation = TRUE]

\* stopSyncAnimation: the frame timer is cleared, the text stays as it is
stopSyncAnimation(bar) == [bar EXCEPT !.animation = FALSE]

\* the status message at the end of the try block
statusMessage(run) ==
    IF run.uploaded = 0 /\ run.downloaded = 0 /\ run.conflicts = 0 /\ run.deleted = 0
    THEN "Synced - No changes"
    ELSE "Synced - " \o ToString(run.uploaded) \o "^ " \o ToString(run.downloaded) \o "v"
         \o (IF run.deleted > 0 THEN " " \o ToString(run.deleted) \o "x" ELSE "")
         \o (IF run.conflicts > 0 THEN " " \o ToString(run.conflicts) \o "!" ELSE "")

\* -------------------------------------------------- validateDriveFolder
\* The answers to GET files/<folderId>?fields=id,name,mimeType
FolderMimeType == "application/vnd.google-apps.folder"
NoResponse == [status |-> 0, mimeType |-> ""]
FolderResponse == [status |-> 200, mimeType |-> FolderMimeType]
ErrorResponses ==
    {[status |-> 404, mimeType |-> ""], [status |-> 403, mimeType |-> ""],
     [status |-> 500, mimeType |-> ""],
     [status |-> 200, mimeType |-> "text/markdown"]}

\* The message of the Error that validateDriveFolder throws, "" when it returns
validateDriveFolder(response) ==
    IF response.status < 200 \/ response.status > 299
    THEN IF response.status = 404
         THEN "Google Drive folder not found. Please check your Folder ID in settings."
         ELSE IF response.status = 403
         THEN "Access denied to Google Drive folder. Please check permissions."
         ELSE "Failed to access Google Drive folder: " \o ToString(response.status)
    ELSE IF response.mimeType # FolderMimeType
    THEN "The specified ID is not a Google Drive folder."
    ELSE ""

DEFAULT_SETTINGS ==
    [lastSyncTime |-> 0, conflictResolution |-> "overwrite", autoSync |-> TRUE,
     refreshToken |-> FALSE, folderId |-> FALSE]

\* ------------------------------------------------------------------ runs
\* A call of performSync: where it stands (pc), how it ended (outcome), its
\* locals, and what it has done so far (ops, verdicts). startSync is
\* lastSyncTime as the call found it; editsAtStart is the count of outside
\* changes still to come when a call began with no other call in flight.
IdleRun ==
    [pc |-> "idle", outcome |-> "none", toDrive |-> FALSE, fromDrive |-> FALSE,
     vaultFiles |-> <<>>, driveFiles |-> <<>>, lastSync |-> 0, i |-> 0,
     uploaded |-> 0, downloaded |-> 0, deleted |-> 0, conflicts |-> 0,
     ops |-> <<>>, verdicts |-> <<>>, startSync |-> 0,
     editsAtStart |-> 0, response |-> NoResponse, notice |-> ""]

InFlight(r) == runs[r].pc \notin {"idle", "done"}
Running     == {r \in Runs : InFlight(r)}

\* The state once onload has returned, for a user who has authenticated and
\* set the folder id: loadSettings and onload have each called setupAutoSync.
Loaded(policy) ==
    LET st  == [DEFAULT_SETTINGS EXCEPT !.refreshToken = TRUE, !.folderId = TRUE,
                                        !.conflictResolution = policy]
        tm0 == NoTimers
    IN /\ settings = st
       /\ timers = setupAutoSync(setupAutoSync(tm0, st), st)

Start(source, paths, policies, nRuns, nEdits, nTicks, nFaults) ==
    /\ now = T0
    /\ vault = [p \in paths |-> NoFile]
    /\ drive = [i \in Ids |-> NoObj]
    /\ nextId = 1
    /\ \E policy \in policies : Loaded(policy)
    /\ statusBar = [text |-> "Ready", animation |-> FALSE]
    /\ folderIdCache = EmptyMap
    /\ modals = {}
    /\ runs = [r \in 1..nRuns |-> IdleRun]
    /\ edits = nEdits
    /\ ticks = nTicks
    /\ faults = nFaults
    /\ build = source

\* ------------------------------------------------------- the outside world
\* Time passes; before there is a file or a watermark the clock's value
\* makes no difference.
Tick(d) ==
    /\ ticks > 0
    /\ settings.lastSyncTime > 0 \/ \E p \in Paths : vault[p] # NoFile
           \/ \E i \in Ids : drive[i].kind # "none"
    /\ now' = now + d
    /\ ticks' = ticks - 1
    /\ UNCHANGED <<vault, drive, nextId, settings, folderIdCache, timers,
                   modals, runs, statusBar, build, edits, faults>>

\* The user creates or modifies a file of the vault
LocalWrite(p, c) ==
    /\ edits > 0
    /\ vault[p] = NoFile \/ vault[p].content # c
    /\ vault' = [vault EXCEPT ![p] = [mtime |-> now, content |-> c]]
    /\ timers' = onVaultEvent(timers, settings)
    /\ edits' = edits - 1
    /\ UNCHANGED <<now, drive, nextId, settings, folderIdCache, modals, runs,
                   statusBar, build, ticks, faults>>

\* The user deletes a file of the vault
LocalDelete(p) ==
    /\ edits > 0
    /\ vault[p] # NoFile
    /\ vault' = [vault EXCEPT ![p] = NoFile]
    /\ timers' = onVaultEvent(timers, settings)
    /\ edits' = edits - 1
    /\ UNCHANGED <<now, drive, nextId, settings, folderIdCache, modals, runs,
                   statusBar, build, ticks, faults>>

\* ids of the remote files that a listing shows at path p
RemoteIdsAt(drv, p) ==
    LET files == getDriveFilesRecursive(drv)
    IN {files[k].id : k \in {j \in 1..Len(files) : files[j].path = p}}

\* Another device or the Drive web UI writes the file at path p, creating
\* the folders and the file that are missing
RemoteWrite(p, c) ==
    LET at == RemoteIdsAt(drive, p)
        w1 == ensureFolderPathExists([World EXCEPT !.cache = EmptyMap],
                                     DirOf(p), ValidToken, "none")
    IN
    /\ edits > 0
    /\ IF at # {}
       THEN /\ drive[Min(at)].content # c
            /\ drive' = [drive EXCEPT ![Min(at)].content = c,
                                      ![Min(at)].mtime = now]
            /\ nextId' = nextId
       ELSE /\ ~w1.capped
            /\ w1.nextId <= MaxIds
            /\ drive' = [w1.drive EXCEPT ![w1.nextId] =
                            [kind |-> "file", parent |-> w1.ret,
                             base |-> p.base, ext |-> p.ext,
                             mtime |-> now, content |-> c]]
            /\ nextId' = w1.nextId + 1
    /\ edits' = edits - 1
    /\ UNCHANGED <<now, vault, settings, folderIdCache, timers, modals, runs,
                   statusBar, build, ticks, faults>>

\* Another device or the Drive web UI deletes a remote file
RemoteDelete(id) ==
    /\ edits > 0
    /\ drive[id].kind = "file"
    /\ drive' = [drive EXCEPT ![id] = NoObj]
    /\ edits' = edits - 1
    /\ UNCHANGED <<now, vault, nextId, settings, folderIdCache, timers, modals,
                   runs, statusBar, build, ticks, faults>>

\* The 'Conflict Resolution' dropdown of the settings tab
SetConflictResolution(value) ==
    /\ edits > 0
    /\ settings.conflictResolution # value
    /\ settings' = [settings EXCEPT !.conflictResolution = value]
    /\ edits' = edits - 1
    /\ UNCHANGED <<now, vault, drive, nextId, folderIdCache, timers, modals,
                   runs, statusBar, build, ticks, faults>>

\* The 'Folder ID' field of the settings tab: the value is stored and
\* setupAutoSync is called
SetFolderId(value) ==
    /\ edits > 0
    /\ timers.loaded
    /\ settings.folderId # value
    /\ settings' = [settings EXCEPT !.folderId = value]
    /\ timers' = setupAutoSync(timers, settings')
    /\ edits' = edits - 1
    /\ UNCHANGED <<now, vault, drive, nextId, folderIdCache, modals, runs,
                   statusBar, build, ticks, faults>>

\* The 'Auto Sync' toggle of the settings tab: the value is stored and
\* setupAutoSync is called
SetAutoSync(value) ==
    /\ edits > 0
    /\ timers.loaded
    /\ settings.autoSync # value
    /\ settings' = [settings EXCEPT !.autoSync = value]
    /\ timers' = setupAutoSync(timers, settings')
    /\ edits' = edits - 1
    /\ UNCHANGED <<now, vault, drive, nextId, folderIdCache, modals, runs,
                   statusBar, build, ticks, faults>>

\* authenticate(), from the command to the callback of getToken: when a
\* refresh token is granted it is stored and the settings are saved;
\* otherwise a Notice is shown
Authenticate ==
    /\ edits > 0
    /\ timers.loaded
    /\ \E granted \in BOOLEAN :
          settings' = IF granted THEN [settings EXCEPT !.refreshToken = TRUE]
                      ELSE settings
    /\ edits' = edits - 1
    /\ UNCHANGED <<now, vault, drive, nextId, folderIdCache, timers, modals,
                   runs, statusBar, build, ticks, faults>>

\* The plugin is disabled or the application closes
Unload ==
    /\ timers.loaded
    /\ timers' = onunload(timers)
    /\ statusBar' = [statusBar EXCEPT !.animation = FALSE]
    /\ UNCHANGED <<now, vault, drive, nextId, settings, folderIdCache, modals,
                   runs, build, edits, ticks, faults>>

\* ------------------------------------------------------------ performSync
Others == <<now, build, edits, ticks>>

\* The outcomes of a call that is explored: it may fail while faults remain
Outcomes == IF faults > 0 THEN BOOLEAN ELSE {TRUE}
Modes    == IF faults > 0 THEN Failures ELSE {"none"}
Spend(failed) == faults' = IF failed THEN faults - 1 ELSE faults
\* The answers to the validation request that are explored
Answers  == IF faults > 0 THEN {FolderResponse} \cup ErrorResponses ELSE {FolderResponse}

\* A step of run r ends in the catch block of performSync
Finished(run, outcome) ==
    [run EXCEPT !.pc = "done", !.outcome = outcome, !.i = 0, !.lastSync = 0,
                !.vaultFiles = <<>>, !.driveFiles = <<>>]
\* catch (error): new Notice('Sync failed: ' + error.message)
Caught(run) == [Finished(run, "error") EXCEPT !.notice = "Sync failed: "]

\* What the step of run r that ends it writes to the status bar: the catch
\* block stops the animation and shows 'Sync failed', the catch around
\* validateDriveFolder only stops the animation, the end of the try block
\* stops it and shows the status message.
Report(r) ==
    statusBar' =
        IF runs'[r].pc # "done" \/ runs[r].pc = "done" THEN statusBar
        ELSE IF runs'[r].outcome = "error"
        THEN updateStatusBar(stopSyncAnimation(statusBar), "Sync failed")
        ELSE IF runs'[r].outcome = "invalid" THEN stopSyncAnimation(statusBar)
        ELSE updateStatusBar(stopSyncAnimation(statusBar), statusMessage(runs[r]))

\* What a step has done is written back: the stores, the cache, the modals,
\* and in the run its counters and the calls and verdicts it has logged.
Absorb(run, w) ==
    [run EXCEPT !.ops = @ \o w.ops, !.verdicts = @ \o w.verdicts,
                !.uploaded = @ + w.uploaded, !.downloaded = @ + w.downloaded,
                !.deleted = @ + w.deleted, !.conflicts = @ + w.conflicts]

Apply(w) ==
    /\ ~w.capped
    /\ vault' = w.vault
    /\ drive' = w.drive
    /\ nextId' = w.nextId
    /\ folderIdCache' = w.cache
    /\ modals' = w.modals

\* performSync with startSyncAnimation in front of the configuration check
performSyncAnimatesFirst(toDrive, fromDrive) ==
    LET r == Min({x \in Runs : runs[x].pc = "idle"})
        begun == [IdleRun EXCEPT !.toDrive = toDrive, !.fromDrive = fromDrive,
                                 !.startSync = settings.lastSyncTime,
                                 !.editsAtStart =
                                     IF Running = {} THEN edits ELSE 0]
    IN
    /\ \E x \in Runs : runs[x].pc = "idle"
    /\ statusBar' = startSyncAnimation(statusBar)
    /\ runs' = [runs EXCEPT ![r] =
                  IF ~settings.refreshToken \/ ~settings.folderId
                  THEN [Finished(begun, "unconfigured") EXCEPT !.notice =
                           "Please authenticate and set Folder ID in settings"]
                  ELSE [begun EXCEPT !.pc = "token"]]

\* performSync(toDrive, fromDrive) up to its first await: the configuration
\* check, then startSyncAnimation and the request of an access token.
performSync(toDrive, fromDrive) ==
    LET r == Min({x \in Runs : runs[x].pc = "idle"})
        begun == [IdleRun EXCEPT !.toDrive = toDrive, !.fromDrive = fromDrive,
                                 !.startSync = settings.lastSyncTime,
                                 !.editsAtStart =
                                     IF Running = {} THEN edits ELSE 0]
    IN
    /\ \E x \in Runs : runs[x].pc = "idle"
    /\ IF ~settings.refreshToken \/ ~settings.folderId
       THEN /\ runs' = [runs EXCEPT ![r] =
                          [Finished(begun, "unconfigured") EXCEPT !.notice =
                              "Please authenticate and set Folder ID in settings"]]
            /\ statusBar' = statusBar
       ELSE /\ runs' = [runs EXCEPT ![r] = [begun EXCEPT !.pc = "token"]]
            /\ statusBar' = startSyncAnimation(statusBar)

\* The three sync commands of onload
Command(toDrive, fromDrive) ==
    /\ timers.loaded
    /\ performSync(toDrive, fromDrive)
    /\ UNCHANGED <<vault, drive, nextId, settings, folderIdCache, timers, modals>>
    /\ UNCHANGED <<Others, faults>>

\* The callback of setInterval
IntervalFire ==
    /\ timers.interval
    /\ performSync(TRUE, TRUE)
    /\ UNCHANGED <<vault, drive, nextId, settings, folderIdCache, timers, modals>>
    /\ UNCHANGED <<Others, faults>>

\* The callback of the debounce setTimeout, 5000 ms after it was set
DebounceFire ==
    /\ timers.timeout > 0
    /\ now >= timers.due
    /\ timers' = [timers EXCEPT !.timeout = @ - 1,
                                !.due = IF timers.timeout = 1 THEN 0 ELSE @]
    /\ performSync(TRUE, TRUE)
    /\ UNCHANGED <<vault, drive, nextId, settings, folderIdCache, modals>>
    /\ UNCHANGED <<Others, faults>>

\* getAccessToken with the write of lastSyncTime in a finally block
GetTokenThenCommit(r) ==
    /\ runs[r].pc = "token"
    /\ \E ok \in Outcomes :
         /\ runs' = [runs EXCEPT ![r] = IF ok THEN [@ EXCEPT !.pc = "validate"]
                                        ELSE Caught(@)]
         /\ settings' = IF ok THEN settings
                         ELSE [settings EXCEPT !.lastSyncTime = now]
         /\ Spend(~ok)
    /\ Report(r)
    /\ UNCHANGED <<vault, drive, nextId, folderIdCache, timers, modals>>
    /\ UNCHANGED Others

\* await auth.getAccessToken(); an empty token throws
GetToken(r) ==
    /\ runs[r].pc = "token"
    /\ \E ok \in Outcomes :
         /\ runs' = [runs EXCEPT ![r] = IF ok THEN [@ EXCEPT !.pc = "validate"]
                                        ELSE Caught(@)]
         /\ Spend(~ok)
    /\ Report(r)
    /\ UNCHANGED <<vault, drive, nextId, settings, folderIdCache, timers, modals>>
    /\ UNCHANGED Others

\* The validation with folderIdCache.clear() moved in front of it
ValidateFolderAfterClear(r) ==
    /\ runs[r].pc = "validate"
    /\ \E response \in Answers :
         LET message == validateDriveFolder(response) IN
         /\ folderIdCache' = EmptyMap
         /\ runs' = [runs EXCEPT ![r] =
                       IF message = ""
                       THEN [@ EXCEPT !.pc = "list", !.vaultFiles = getFiles(vault)]
                       ELSE [Finished(@, "invalid") EXCEPT
                                !.response = response,
                                !.notice = "Google Drive sync failed: " \o message]]
         /\ Spend(message # "")
    /\ Report(r)
    /\ UNCHANGED <<vault, drive, nextId, settings, timers, modals>>
    /\ UNCHANGED Others

\* await validateDriveFolder(); when it throws the run returns after a Notice.
\* Then, without an await: folderIdCache.clear(), vault.getFiles(), and the
\* first request of the recursive listing.
ValidateFolder(r) ==
    /\ runs[r].pc = "validate"
    /\ \E response \in Answers :
         LET message == validateDriveFolder(response) IN
         /\ IF message = ""
            THEN /\ folderIdCache' = EmptyMap
                 /\ runs' = [runs EXCEPT ![r].pc = "list",
                                         ![r].vaultFiles = getFiles(vault)]
            ELSE /\ folderIdCache' = folderIdCache
                 /\ runs' = [runs EXCEPT ![r] =
                               [Finished(@, "invalid") EXCEPT
                                   !.response = response,
                                   !.notice = "Google Drive sync failed: " \o message]]
         /\ Spend(message # "")
    /\ Report(r)
    /\ UNCHANGED <<vault, drive, nextId, settings, timers, modals>>
    /\ UNCHANGED Others

\* await getDriveFilesRecursive(); then lastSync is read from the settings
\* and the token is requested again for the uploads
ListDrive(r) ==
    /\ runs[r].pc = "list"
    /\ \E ok \in Outcomes :
         /\ runs' = [runs EXCEPT ![r] =
                       IF ~ok THEN Caught(@)
                       ELSE IF build = "main.ts"
                       THEN [@ EXCEPT !.pc = "vault", !.i = 1,
                                      !.driveFiles = getDriveFiles(drive),
                                      !.lastSync = settings.lastSyncTime]
                       ELSE [@ EXCEPT !.pc = "uploadToken",
                                      !.driveFiles = getDriveFilesRecursive(drive),
                                      !.lastSync = settings.lastSyncTime]]
         /\ Spend(~ok)
    /\ Report(r)
    /\ UNCHANGED <<vault, drive, nextId, settings, folderIdCache, timers, modals>>
    /\ UNCHANGED Others

\* 'Refresh access token before upload operations'
UploadToken(r) ==
    /\ runs[r].pc = "uploadToken"
    /\ \E ok \in Outcomes :
         /\ runs' = [runs EXCEPT ![r] = IF ok THEN [@ EXCEPT !.pc = "vault", !.i = 1]
                                        ELSE Caught(@)]
         /\ Spend(~ok)
    /\ Report(r)
    /\ UNCHANGED <<vault, drive, nextId, settings, folderIdCache, timers, modals>>
    /\ UNCHANGED Others

\* One iteration of the loop over vaultFiles; after the last one the token is
\* requested again for the downloads
VaultStep(r) ==
    LET run == runs[r] IN
    /\ run.pc = "vault"
    /\ IF run.i > Len(run.vaultFiles)
       THEN /\ runs' = [runs EXCEPT ![r] =
                          IF build # "main.ts" THEN [@ EXCEPT !.pc = "downloadToken"]
                          ELSE IF @.fromDrive THEN [@ EXCEPT !.pc = "drive", !.i = 1]
                          ELSE [@ EXCEPT !.pc = "commit"]]
            /\ UNCHANGED <<vault, drive, nextId, folderIdCache, modals, faults>>
       ELSE \E fail \in Modes, stat \in ObservedStats(World, run.vaultFiles[run.i]) :
              LET w == VaultBody(World, r, run.vaultFiles[run.i], stat, fail)
              IN /\ Apply(w)
                 /\ runs' = [runs EXCEPT ![r] =
                               IF w.ok THEN [Absorb(@, w) EXCEPT !.i = @ + 1]
                               ELSE Caught(Absorb(@, w))]
                 /\ Spend(w # VaultBody(World, r, run.vaultFiles[run.i],
                                        stat, "none"))
    /\ Report(r)
    /\ UNCHANGED <<settings, timers>>
    /\ UNCHANGED Others

\* 'Refresh access token before download operations'
DownloadToken(r) ==
    /\ runs[r].pc = "downloadToken"
    /\ \E ok \in Outcomes :
         /\ runs' = [runs EXCEPT ![r] =
                       IF ~ok THEN Caught(@)
                       ELSE IF @.fromDrive THEN [@ EXCEPT !.pc = "drive", !.i = 1]
                       ELSE [@ EXCEPT !.pc = "commit"]]
         /\ Spend(~ok)
    /\ Report(r)
    /\ UNCHANGED <<vault, drive, nextId, settings, folderIdCache, timers, modals>>
    /\ UNCHANGED Others

\* One iteration of the loop over driveFiles
DriveStep(r) ==
    LET run == runs[r] IN
    /\ run.pc = "drive"
    /\ IF run.i > Len(run.driveFiles)
       THEN /\ runs' = [runs EXCEPT ![r].pc = "commit"]
            /\ UNCHANGED <<vault, drive, nextId, folderIdCache, modals, faults>>
       ELSE LET driveFile == run.driveFiles[run.i]
                vaultFile == MapGetByName(run.vaultFiles, NameOf(driveFile.path),
                                          Len(run.vaultFiles))
            IN \E fail \in Modes, stat \in ObservedStats(World, vaultFile) :
                 LET w == DriveBody(World, r, driveFile, stat, fail)
                 IN /\ Apply(w)
                    /\ runs' = [runs EXCEPT ![r] =
                                  IF w.ok THEN [Absorb(@, w) EXCEPT !.i = @ + 1]
                                  ELSE Caught(Absorb(@, w))]
                    /\ Spend(w # DriveBody(World, r, driveFile, stat, "none"))
    /\ Report(r)
    /\ UNCHANGED <<settings, timers>>
    /\ UNCHANGED Others

\* A watermark taken from the newest entry of the run's two snapshots
NewestListed(run) ==
    LET times == {run.vaultFiles[k].mtime : k \in 1..Len(run.vaultFiles)}
                 \cup {run.driveFiles[k].mtime : k \in 1..Len(run.driveFiles)}
                 \cup {0}
    IN CHOOSE t \in times : \A u \in times : u <= t

\* A commit that writes back the watermark the run began with
WatermarkAtStart(run) == run.startSync

\* Date.now() at the end of the try block
CommitTime(run) == now

\* this.settings.lastSyncTime = Date.now(); await this.saveSettings()
Commit(r) ==
    /\ runs[r].pc = "commit"
    /\ settings' = [settings EXCEPT !.lastSyncTime = CommitTime(runs[r])]
    /\ runs' = [runs EXCEPT ![r] = Finished(@, "ok")]
    /\ Report(r)
    /\ UNCHANGED <<vault, drive, nextId, folderIdCache, timers, modals>>
    /\ UNCHANGED <<Others, faults>>

\* The callback of the frame timer of startSyncAnimation, every 100 ms
AnimationFrame ==
    /\ statusBar.animation
    /\ statusBar.text # "Syncing..."
    /\ statusBar' = updateStatusBar(statusBar, "Syncing...")
    /\ UNCHANGED <<vault, drive, nextId, settings, folderIdCache, timers, modals,
                   runs>>
    /\ UNCHANGED <<Others, faults>>

\* ------------------------------------------------- the ConflictModal
\* 'Keep Local Version': update-in-place upload of the vault file, then close
ChooseLocal(m) ==
    \E fail \in Modes \cap {"none", "transfer"} :
      LET w0 == [World EXCEPT !.modals = @ \ {m}]
          w1 == ensureFolderPathExists(w0, DirOf(m.driveFile.path), ValidToken, fail)
          w2 == IF ~w1.ok \/ w1.capped THEN w1
                ELSE uploadFileToFolder(w1, m.driveFile.path, ValidToken, w1.ret,
                                        m.driveFile.id, fail)
      IN /\ m \in modals
         /\ Apply(w2)
         /\ runs' = [runs EXCEPT ![m.run] = Absorb(@, w2)]
         /\ Spend(fail # "none")
         /\ UNCHANGED <<settings, timers, statusBar>>
         /\ UNCHANGED Others

\* 'Use Remote Version': download of the remote file, then close
ChooseRemote(m) ==
    \E fail \in Modes \cap {"none", "transfer"} :
      LET w0 == [World EXCEPT !.modals = @ \ {m}]
          w1 == downloadFile(w0, m.driveFile, ValidToken, fail)
      IN /\ m \in modals
         /\ Apply(w1)
         /\ runs' = [runs EXCEPT ![m.run] = Absorb(@, w1)]
         /\ Spend(fail # "none")
         /\ UNCHANGED <<settings, timers, statusBar>>
         /\ UNCHANGED Others

\* The modal is closed without a choice
Dismiss(m) ==
    /\ m \in modals
    /\ modals' = modals \ {m}
    /\ UNCHANGED <<vault, drive, nextId, settings, folderIdCache, timers, runs,
                   statusBar>>
    /\ UNCHANGED <<Others, faults>>

\* ------------------------------------------------------- specifications
Quiet == Running = {}

\* Something is still to come that an outside event could bear on
Pending == \E r \in Runs : runs[r].pc = "idle"

Directions == {<<TRUE, FALSE>>, <<FALSE, TRUE>>, <<TRUE, TRUE>>}

RunStep ==
    \/ \E r \in Runs : GetToken(r)
    \/ \E r \in Runs : ValidateFolder(r)
    \/ \E r \in Runs : ListDrive(r)
    \/ \E r \in Runs : UploadToken(r)
    \/ \E r \in Runs : VaultStep(r)
    \/ \E r \in Runs : DownloadToken(r)
    \/ \E r \in Runs : DriveStep(r)
    \/ \E r \in Runs : Commit(r)

Arbiter ==
    \/ \E m \in modals : ChooseLocal(m)
    \/ \E m \in modals : ChooseRemote(m)
    \/ \E m \in modals : Dismiss(m)

\* Runs one after the other on one text file in a folder: a trigger fires
\* and the outside world acts only when no run is in flight.
Init == Start("part_000", {FileB}, Policies, MaxRuns, MaxEdits, MaxTicks, MaxFaults)

Next ==
    \/ Quiet /\ Pending /\ \E d \in TickSteps : Tick(d)
    \/ Quiet /\ Pending /\ \E p \in Paths, c \in Contents : LocalWrite(p, c)
    \/ Quiet /\ Pending /\ \E p \in Paths : LocalDelete(p)
    \/ Quiet /\ Pending /\ \E p \in Paths, c \in Contents : RemoteWrite(p, c)
    \/ Quiet /\ Pending /\ \E id \in Ids : RemoteDelete(id)
    \/ Quiet /\ \E d \in Directions : Command(d[1], d[2])
    \/ Quiet /\ IntervalFire
    \/ Quiet /\ DebounceFire
    \/ RunStep
    \/ Arbiter

Spec == Init /\ [][Next]_vars

\* Runs that overlap, on one text file of the root: every trigger may fire
\* and the outside world may act at every await of a run in flight.
InitOverlap ==
    Start("part_000", {FileA}, {"overwrite"}, MaxRuns, OverlapEdits, OverlapTicks, MaxFaults)

NextOverlap ==
    \/ \E d \in TickSteps : Tick(d)
    \/ \E p \in Paths, c \in Contents : LocalWrite(p, c)
    \/ \E p \in Paths : LocalDelete(p)
    \/ \E p \in Paths, c \in Contents : RemoteWrite(p, c)
    \/ \E id \in Ids : RemoteDelete(id)
    \/ \E d \in Directions : Command(d[1], d[2])
    \/ IntervalFire
    \/ DebounceFire
    \/ RunStep

SpecOverlap == InitOverlap /\ [][NextOverlap]_vars

\* The plugin built from src/main.ts, runs one after the other on one text
\* file of the root.
LegacyPolicies == {"overwrite", "keep-remote"}

InitLegacy ==
    Start("main.ts", {FileA}, LegacyPolicies, MaxRuns, MaxEdits, MaxTicks, MaxFaults)

NextLegacy ==
    \/ Quiet /\ Pending /\ \E d \in TickSteps : Tick(d)
    \/ Quiet /\ Pending /\ \E p \in Paths, c \in Contents : LocalWrite(p, c)
    \/ Quiet /\ Pending /\ \E p \in Paths : LocalDelete(p)
    \/ Quiet /\ Pending /\ \E p \in Paths, c \in Contents : RemoteWrite(p, c)
    \/ Quiet /\ Pending /\ \E id \in Ids : RemoteDelete(id)
    \/ Quiet /\ \E d \in Directions : Command(d[1], d[2])
    \/ Quiet /\ IntervalFire
    \/ Quiet /\ DebounceFire
    \/ \E r \in Runs : GetToken(r)
    \/ \E r \in Runs : ValidateFolder(r)
    \/ \E r \in Runs : ListDrive(r)
    \/ \E r \in Runs : VaultStep(r)
    \/ \E r \in Runs : DriveStep(r)
    \/ \E r \in Runs : Commit(r)

SpecLegacy == InitLegacy /\ [][NextLegacy]_vars

\* The vault one successful bidirectional run after n/b.md was written: the
\* file is on both sides with the same content, the remote copy carries the
\* time of its upload, the watermark is the time of the commit, and the
\* folder cache holds the folder the run looked up.
SyncedAt == T0 - 3 * SLACK

InitSynced ==
    LET st == [DEFAULT_SETTINGS EXCEPT !.refreshToken = TRUE, !.folderId = TRUE,
                                       !.lastSyncTime = SyncedAt]
        tm0 == NoTimers
    IN
    /\ now = T0
    /\ vault = [p \in {FileB} |-> [mtime |-> SyncedAt, content |-> "X"]]
    /\ drive = [i \in Ids |->
                  IF i = 1 THEN [kind |-> "folder", parent |-> RootId,
                                 base |-> FileB.dir[1], ext |-> "",
                                 mtime |-> SyncedAt, content |-> ""]
                  ELSE IF i = 2 THEN [kind |-> "file", parent |-> 1,
                                      base |-> FileB.base, ext |-> FileB.ext,
                                      mtime |-> SyncedAt, content |-> "X"]
                  ELSE NoObj]
    /\ nextId = 3
    /\ settings = st
    /\ timers = setupAutoSync(setupAutoSync(tm0, st), st)
    /\ statusBar = [text |-> "Synced - 1^ 0v", animation |-> FALSE]
    /\ folderIdCache = Put(EmptyMap, FileB.dir, 1)
    /\ modals = {}
    /\ runs = [r \in 1..MaxRuns |-> IdleRun]
    /\ edits = MaxEdits
    /\ ticks = MaxTicks
    /\ faults = MaxFaults
    /\ build = "part_000"

NextSynced ==
    \/ Quiet /\ Pending /\ \E d \in TickSteps : Tick(d)
    \/ Quiet /\ Pending /\ \E p \in Paths, c \in Contents : LocalWrite(p, c)
    \/ Quiet /\ Pending /\ \E p \in Paths : LocalDelete(p)
    \/ Quiet /\ Pending /\ \E p \in Paths, c \in Contents : RemoteWrite(p, c)
    \/ Quiet /\ Pending /\ \E id \in Ids : RemoteDelete(id)
    \/ Quiet /\ \E d \in Directions : Command(d[1], d[2])
    \/ Quiet /\ IntervalFire
    \/ Quiet /\ DebounceFire
    \/ RunStep

SpecSynced == InitSynced /\ [][NextSynced]_vars

\* Runs one after the other on two text files that share the folder n, one of
\* them a level deeper.
InitDeep ==
    Start("part_000", {FileB, FileD}, {"overwrite"}, MaxRuns, MaxEdits, OverlapTicks,
          MaxFaults)

NextDeep ==
    \/ Quiet /\ Pending /\ \E d \in TickSteps : Tick(d)
    \/ Quiet /\ Pending /\ \E p \in Paths, c \in Contents : LocalWrite(p, c)
    \/ Quiet /\ Pending /\ \E p \in Paths : LocalDelete(p)
    \/ Quiet /\ Pending /\ \E p \in Paths, c \in Contents : RemoteWrite(p, c)
    \/ Quiet /\ Pending /\ \E id \in Ids : RemoteDelete(id)
    \/ Quiet /\ \E d \in Directions : Command(d[1], d[2])
    \/ Quiet /\ IntervalFire
    \/ Quiet /\ DebounceFire
    \/ RunStep

SpecDeep == InitDeep /\ [][NextDeep]_vars

\* The plugin from onload to onunload on one text file in a folder: the
\* user edits the vault and the Folder ID, the frame timer of the status bar
\* runs, and the plugin is unloaded at any moment; runs one after the other.
InitLifecycle ==
    Start("part_000", {FileB}, {"overwrite"}, MaxRuns, LifeEdits, MaxTicks, MaxFaults)

NextLifecycle ==
    \/ Quiet /\ Pending /\ \E d \in TickSteps : Tick(d)
    \/ Quiet /\ Pending /\ \E p \in Paths, c \in Contents : LocalWrite(p, c)
    \/ Quiet /\ Pending /\ \E p \in Paths : LocalDelete(p)
    \/ Quiet /\ Pending /\ \E value \in BOOLEAN : SetFolderId(value)
    \/ Quiet /\ \E d \in Directions : Command(d[1], d[2])
    \/ Quiet /\ IntervalFire
    \/ Quiet /\ DebounceFire
    \/ RunStep
    \/ AnimationFrame
    \/ Unload

SpecLifecycle == InitLifecycle /\ [][NextLifecycle]_vars

\* A first run on a vault and a sync folder that were filled independently:
\* one file, text or binary, is on both sides, each side with a content of
\* its own, empty or not, and nothing has been synced yet.
OracleContents == {"", "X", "Y", "XY"}
OraclePaths == {FileB, FileC}

InitOracle ==
    /\ now = T0
    /\ \E q \in OraclePaths, lc \in OracleContents, rc \in OracleContents :
         /\ vault = [p \in OraclePaths |->
                        IF p = q THEN [mtime |-> T0, content |-> lc] ELSE NoFile]
         /\ drive = [i \in Ids |->
                        IF i = 1 THEN [kind |-> "folder", parent |-> RootId,
                                       base |-> q.dir[1], ext |-> "",
                                       mtime |-> T0, content |-> ""]
                        ELSE IF i = 2 THEN [kind |-> "file", parent |-> 1,
                                            base |-> q.base, ext |-> q.ext,
                                            mtime |-> T0, content |-> rc]
                        ELSE NoObj]
    /\ nextId = 3
    /\ \E policy \in {"keep-local", "keep-remote"} : Loaded(policy)
    /\ statusBar = [text |-> "Ready", animation |-> FALSE]
    /\ folderIdCache = EmptyMap
    /\ modals = {}
    /\ runs = [r \in 1..MaxRuns |-> IdleRun]
    /\ edits = OracleEdits
    /\ ticks = 0
    /\ faults = MaxFaults
    /\ build = "part_000"

\* The user may delete the file while a run is in flight
NextOracle ==
    \/ Quiet /\ \E d \in Directions : Command(d[1], d[2])
    \/ ~Quiet /\ \E p \in Paths : LocalDelete(p)
    \/ RunStep

SpecOracle == InitOracle /\ [][NextOracle]_vars

\* Runs that overlap on one text file in a folder, under 'overwrite' or
\* 'ask': commands and the interval timer fire, the file is written on either
\* side and a modal is answered at every await of a run in flight; no call
\* fails and the clock stands still.
InitShared ==
    Start("part_000", {FileB}, {"overwrite", "ask"}, MaxRuns, SharedEdits, 0, 0)

NextShared ==
    \/ \E p \in Paths, c \in Contents : LocalWrite(p, c)
    \/ \E p \in Paths, c \in Contents : RemoteWrite(p, c)
    \/ \E d \in Directions : Command(d[1], d[2])
    \/ IntervalFire
    \/ RunStep
    \/ Arbiter

SpecShared == InitShared /\ [][NextShared]_vars

\* The plugin as installed, before the user has authenticated and set the
\* folder: the settings are the defaults, onload has set up no timer. The
\* user authenticates, sets the folder, toggles auto-sync, edits the vault
\* and syncs; runs one after the other, no call fails.
InitSetup ==
    /\ now = T0
    /\ vault = [p \in {FileB} |-> NoFile]
    /\ drive = [i \in Ids |-> NoObj]
    /\ nextId = 1
    /\ settings = DEFAULT_SETTINGS
    /\ timers = setupAutoSync(setupAutoSync(NoTimers, DEFAULT_SETTINGS),
                              DEFAULT_SETTINGS)
    /\ statusBar = [text |-> "Ready", animation |-> FALSE]
    /\ folderIdCache = EmptyMap
    /\ modals = {}
    /\ runs = [r \in 1..MaxRuns |-> IdleRun]
    /\ edits = SetupEdits
    /\ ticks = OverlapTicks
    /\ faults = 0
    /\ build = "part_000"

NextSetup ==
    \/ Quiet /\ Pending /\ \E d \in TickSteps : Tick(d)
    \/ Quiet /\ Pending /\ \E p \in Paths, c \in Contents : LocalWrite(p, c)
    \/ Quiet /\ Pending /\ \E value \in BOOLEAN : SetFolderId(value)
    \/ Quiet /\ Pending /\ \E value \in BOOLEAN : SetAutoSync(value)
    \/ Quiet /\ Pending /\ Authenticate
    \/ Quiet /\ \E d \in Directions : Command(d[1], d[2])
    \/ Quiet /\ IntervalFire
    \/ Quiet /\ DebounceFire
    \/ RunStep
    \/ Unload

SpecSetup == InitSetup /\ [][NextSetup]_vars

\* ============================================================ properties
Failed(r) == runs[r].pc = "done" /\ runs[r].outcome \in {"error", "invalid"}
Succeeded(r) == runs[r].pc = "done" /\ runs[r].outcome = "ok"
Commits(r) == runs[r].pc = "commit" /\ runs'[r].pc = "done"

Acting == {"upload", "download", "conflict", "delete-remote"}
VerdictsOn(run, loops, p, kinds) ==
    {k \in 1..Len(run.verdicts) :
        /\ run.verdicts[k].loop \in loops
        /\ run.verdicts[k].path = p
        /\ run.verdicts[k].kind \in kinds}
Kinds == Acting \cup {"skip", "identical"}
Loops == {"vault", "drive"}
OpsOn(run, p, kinds) ==
    {k \in 1..Len(run.ops) : run.ops[k].path = p /\ run.ops[k].op \in kinds}
Transfers == {"create", "update", "download", "delete"}

ChangedIn(files, p, lastSync) ==
    \E k \in 1..Len(files) : files[k].path = p /\ files[k].mtime > lastSync + SLACK

\* ---------------------------------------------------------------- C1
\* C1: at most one run of performSync is in flight at any moment; a call
\* that arrives while a run is active does not begin a second run.
C1_MutualExclusion == Cardinality(Running) <= 1

\* ---------------------------------------------------------------- C2
\* C2: the step in which a run ends through an error (token, validation,
\* listing, transfer, folder creation) leaves lastSyncTime as it was, which
\* is the value it had when the run began; and a run that has ended this way
\* takes no further decision.
C2_FailedRunKeepsWatermark ==
    [][\A r \in Runs :
          /\ (InFlight(r) /\ runs'[r].pc = "done"
                /\ runs'[r].outcome \in {"error", "invalid"})
             => /\ settings'.lastSyncTime = settings.lastSyncTime
                /\ settings'.lastSyncTime = runs[r].startSync
          /\ Failed(r) => /\ runs'[r].pc = "done"
                          /\ runs'[r].outcome = runs[r].outcome
                          /\ runs'[r].verdicts = runs[r].verdicts]_vars

\* A run has failed at a transfer, after a run before it had committed
C2_Witness ==
    \E r \in Runs :
        /\ Failed(r)
        /\ \E k \in 1..Len(runs[r].ops) : ~runs[r].ops[k].ok
        /\ runs[r].startSync > 0
        /\ settings.lastSyncTime = runs[r].startSync

\* ---------------------------------------------------------------- C3
\* C3: under every interleaving of runs, lastSyncTime never decreases; it
\* changes only in the step that ends a run without an error; and when a
\* run ends without an error lastSyncTime is at least what it was when that
\* run began.
C3_WatermarkMonotone ==
    [][/\ settings'.lastSyncTime >= settings.lastSyncTime
       /\ settings'.lastSyncTime # settings.lastSyncTime
             => \E r \in Runs : Commits(r) /\ runs'[r].outcome = "ok"
       /\ \A r \in Runs : (Commits(r) /\ runs'[r].outcome = "ok")
             => settings'.lastSyncTime >= runs[r].startSync]_vars

\* Two runs that began before either had committed have both committed, the
\* second one later on the clock
C3_Witness ==
    \E r1, r2 \in Runs :
        /\ r1 # r2
        /\ Succeeded(r1) /\ Succeeded(r2)
        /\ runs[r1].startSync = 0 /\ runs[r2].startSync = 0
        /\ settings.lastSyncTime > T0

\* ---------------------------------------------------------------- C4
\* C4: when a run commits, every path that its snapshots show as changed
\* since the watermark the run read, and on which the run decided nothing but
\* skip, still counts as changed against the watermark that the commit
\* writes.
StillChanged(p) ==
    \/ vault[p] # NoFile /\ vault[p].mtime > settings.lastSyncTime + SLACK
    \/ \E id \in RemoteIdsAt(drive, p) :
          drive[id].mtime > settings.lastSyncTime + SLACK

Unprocessed(run, p) ==
    /\ \/ ChangedIn(run.vaultFiles, p, run.lastSync)
       \/ ChangedIn(run.driveFiles, p, run.lastSync)
    /\ VerdictsOn(run, Loops, p, Kinds \ {"skip"}) = {}

C4_NoAdvancePastUnprocessed ==
    [][\A r \in Runs : \A p \in Paths :
          (Commits(r) /\ Unprocessed(runs[r], p)) => StillChanged(p)']_vars

\* ---------------------------------------------------------------- C5
\* C5: when a bidirectional run under 'overwrite' or 'keep-remote' commits,
\* with no outside change during the run and no failed call, every path has
\* the same content on both sides: absent on both, or one remote file equal
\* to the local file.
Converged ==
    \A p \in Paths :
        LET ids == RemoteIdsAt(drive, p) IN
        IF vault[p] = NoFile THEN ids = {}
        ELSE /\ Cardinality(ids) = 1
             /\ \A id \in ids : drive[id].content = vault[p].content

C5_Convergence ==
    [][\A r \in Runs :
          (/\ Commits(r)
           /\ runs[r].toDrive /\ runs[r].fromDrive
           /\ \A k \in 1..Len(runs[r].ops) : runs[r].ops[k].ok
           /\ settings.conflictResolution \in {"overwrite", "keep-remote"})
          => Converged']_vars

\* ---------------------------------------------------------------- C6
\* C6: a run that follows a successful run with the same direction flags,
\* with no outside change between the two, decides skip for every path,
\* issues no call, and leaves all four counters at zero.
C6_SecondRunIdle ==
    \A r \in Runs :
        (/\ r + 1 \in Runs
         /\ Succeeded(r)
         /\ runs[r + 1].pc # "idle"
         /\ runs[r + 1].toDrive = runs[r].toDrive
         /\ runs[r + 1].fromDrive = runs[r].fromDrive
         /\ runs[r + 1].editsAtStart = runs[r].editsAtStart)
        => /\ runs[r + 1].ops = <<>>
           /\ \A p \in Paths :
                 VerdictsOn(runs[r + 1], Loops, p, Kinds \ {"skip"}) = {}
           /\ runs[r + 1].uploaded = 0 /\ runs[r + 1].downloaded = 0
           /\ runs[r + 1].deleted = 0 /\ runs[r + 1].conflicts = 0

C8_FalseConflictSuppressed ==
    /\ [](\A r \in Runs : \A p \in Paths :
             VerdictsOn(runs[r], Loops, p, {"identical"}) # {}
                => OpsOn(runs[r], p, Transfers \cup {"resolve", "modal"}) = {})
    /\ [][\A r \in Runs :
            LET run == runs[r]
                file == run.vaultFiles[run.i]
                driveFile == driveFileMapGet(run.driveFiles, file.path)
            IN (/\ run.pc = "vault" /\ run.i <= Len(run.vaultFiles)
                /\ runs'[r].pc = "vault"
                /\ faults' = faults
                /\ run.toDrive
                /\ driveFile # NoEntry
                /\ file.mtime > run.lastSync + SLACK
                /\ driveFile.mtime > run.lastSync + SLACK
                /\ vault[file.path] # NoFile
                /\ drive[driveFile.id].kind = "file"
                /\ vault[file.path].content = drive[driveFile.id].content)
               => /\ runs'[r].verdicts =
                       Append(run.verdicts, [loop |-> "vault", path |-> file.path,
                                             kind |-> "identical"])
                  /\ runs'[r].ops = run.ops
                  /\ runs'[r].conflicts = run.conflicts
                  /\ runs'[r].uploaded = run.uploaded
                  /\ vault' = vault /\ drive' = drive /\ modals' = modals]_vars

\* A bidirectional run has ended without an error after deciding that a
\* path changed on both sides was identical
C8_Witness ==
    \E r \in Runs : \E p \in Paths :
        /\ Succeeded(r) /\ runs[r].toDrive /\ runs[r].fromDrive
        /\ VerdictsOn(runs[r], {"vault"}, p, {"identical"}) # {}
        /\ vault[p] # NoFile
        /\ \E id \in RemoteIdsAt(drive, p) : drive[id].content = vault[p].content

\* ---------------------------------------------------------------- C9
\* C9: when the vault loop meets a path changed on both sides whose contents
\* differ, the policy is 'overwrite' and no call fails, the remote file of
\* the listing ends the step with the local content, by an update of that
\* file, and no new remote object is created.
C9_OverwriteUpdatesInPlace ==
    [][\A r \in Runs :
          LET run == runs[r]
              file == run.vaultFiles[run.i]
              driveFile == MapGetByName(run.driveFiles, NameOf(file.path),
                                        Len(run.driveFiles))
          IN (/\ run.pc = "vault" /\ run.i <= Len(run.vaultFiles)
              /\ runs'[r] # run
              /\ faults' = faults
              /\ run.toDrive
              /\ settings.conflictResolution = "overwrite"
              /\ driveFile # NoEntry
              /\ file.mtime > run.lastSync + SLACK
              /\ driveFile.mtime > run.lastSync + SLACK
              /\ vault[file.path] # NoFile
              /\ drive[driveFile.id].kind = "file"
              /\ vault[file.path].content # drive[driveFile.id].content)
             => /\ drive'[driveFile.id].kind = "file"
                /\ drive'[driveFile.id].content = vault[file.path].content
                /\ nextId' = nextId
                /\ \E k \in 1..Len(runs'[r].ops) :
                      /\ k > Len(run.ops)
                      /\ runs'[r].ops[k] = [op |-> "update", path |-> file.path,
                                            id |-> driveFile.id, ok |-> TRUE]]_vars

\* ---------------------------------------------------------------- C10
\* C10: a run with toDrive set and fromDrive clear issues no download and
\* no remote delete, whatever the policy and whatever the Arbiter chooses.
C10_ToRemoteOnlyNeverDownloads ==
    \A r \in Runs :
        (runs[r].toDrive /\ ~runs[r].fromDrive)
        => \A k \in 1..Len(runs[r].ops) :
              runs[r].ops[k].op \notin {"download", "delete"}

\* ---------------------------------------------------------------- C11
\* C11: a run with toDrive clear and fromDrive set issues no file create, no
\* file update, no folder create and no remote delete, and no step of it
\* changes the remote store.
RemoteMutations == {"create", "update", "delete", "mkdir"}

C11_FromRemoteOnlyKeepsRemote ==
    /\ [](\A r \in Runs :
             (~runs[r].toDrive /\ runs[r].fromDrive)
             => \A k \in 1..Len(runs[r].ops) :
                   runs[r].ops[k].op \notin RemoteMutations)
    /\ [][\A r \in Runs :
             (/\ InFlight(r) /\ runs'[r] # runs[r]
              /\ ~runs[r].toDrive /\ runs[r].fromDrive)
             => drive' = drive /\ nextId' = nextId]_vars

\* A run from remote only has ended without an error after a download and
\* after passing over a remote file that has no local file
C11_Witness ==
    \E r \in Runs :
        /\ Succeeded(r) /\ ~runs[r].toDrive /\ runs[r].fromDrive
        /\ \/ \E k \in 1..Len(runs[r].ops) :
                 runs[r].ops[k].op = "download" /\ runs[r].ops[k].ok
           \/ \E p \in Paths :
                 /\ VerdictsOn(runs[r], {"drive"}, p, {"skip"}) # {}
                 /\ vault[p] = NoFile
        /\ \E i \in Ids : drive[i].kind = "file"

\* ---------------------------------------------------------------- C20
\* C20: whatever the direction flags, a run that reaches its commit has
\* decided 'conflict' or 'identical' for every path that both snapshots show
\* as changed since the watermark the run read.
C20_ConflictWhateverDirection ==
    \A r \in Runs : \A p \in Paths :
        (/\ runs[r].pc = "commit"
         /\ ChangedIn(runs[r].vaultFiles, p, runs[r].lastSync)
         /\ ChangedIn(runs[r].driveFiles, p, runs[r].lastSync))
        => VerdictsOn(runs[r], Loops, p, {"conflict", "identical"}) # {}

\* ---------------------------------------------------------------- C12
\* C12: a file that was on both sides when the last run committed, that was
\* then deleted locally and was not modified remotely, is handled by the
\* next bidirectional run that reaches its commit with a remote delete and
\* no download, and the path is then absent on both sides.
DeletedLocally(run, p) ==
    /\ vaultFileMapGet(run.vaultFiles, p) = NoEntry
    /\ driveFileMapGet(run.driveFiles, p) # NoEntry
    /\ driveFileMapGet(run.driveFiles, p).mtime <= run.lastSync
    /\ run.lastSync = SyncedAt

C12_LocalDeletionPropagates ==
    \A r \in Runs : \A p \in Paths :
        (/\ runs[r].pc = "commit" /\ runs[r].toDrive /\ runs[r].fromDrive
         /\ DeletedLocally(runs[r], p))
        => /\ OpsOn(runs[r], p, {"delete"}) # {}
           /\ OpsOn(runs[r], p, {"download"}) = {}
           /\ vault[p] = NoFile
           /\ RemoteIdsAt(drive, p) = {}

\* ---------------------------------------------------------------- C16
\* C16: a run in which a call was answered with an error (folder search,
\* folder create, file create or update, download, delete) is aborted: it
\* does not go on to its commit, so a run that has advanced the watermark
\* made no call that failed.
FailedCalls(run) == {k \in 1..Len(run.ops) : ~run.ops[k].ok}

C16_TransportErrorAborts ==
    \A r \in Runs :
        FailedCalls(runs[r]) # {} => runs[r].pc # "commit" /\ ~Succeeded(r)

\* ---------------------------------------------------------------- C13
\* C13: within one run no folder path is the target of more than one
\* create-folder call, and a folder path that a file uploaded by the run
\* lies under and that no folder object stood for before the run is the
\* target of exactly one.
RECURSIVE FoldersAt(_, _)
FoldersAt(drv, q) ==
    IF q = <<>> THEN {RootId}
    ELSE {i \in Ids : /\ drv[i].kind = "folder"
                      /\ drv[i].base = q[Len(q)]
                      /\ drv[i].parent \in FoldersAt(drv, SubSeq(q, 1, Len(q) - 1))}

FolderPaths == UNION {{SubSeq(p.dir, 1, k) : k \in 1..Len(p.dir)} : p \in Paths}

CreateFolderCalls(run, q) == OpsOn(run, FolderKey(q), {"mkdir"})

UploadedUnder(run, q) ==
    \E k \in 1..Len(run.ops) :
        /\ run.ops[k].op \in {"create", "update"} /\ run.ops[k].ok
        /\ Len(run.ops[k].path.dir) >= Len(q)
        /\ SubSeq(run.ops[k].path.dir, 1, Len(q)) = q

C13_OneCreatePerMissingSegment ==
    \A r \in Runs : \A q \in FolderPaths :
        LET calls == CreateFolderCalls(runs[r], q)
            made  == {runs[r].ops[k].id : k \in calls}
        IN /\ Cardinality(calls) <= 1
           /\ (UploadedUnder(runs[r], q) /\ FoldersAt(drive, q) \ made = {})
              => Cardinality(calls) = 1

\* A run has uploaded n/b.md and n/m/d.md with no remote folder to start
\* from and has created n and n/m
C13_Witness ==
    \E r \in Runs :
        /\ Succeeded(r)
        /\ \A p \in {FileB, FileD} : OpsOn(runs[r], p, {"create"}) # {}
        /\ \A q \in FolderPaths :
              /\ Cardinality(CreateFolderCalls(runs[r], q)) = 1
              /\ FoldersAt(drive, q) \subseteq
                    {runs[r].ops[k].id : k \in CreateFolderCalls(runs[r], q)}

\* ---------------------------------------------------------------- C17
\* C17: a run whose sync root is answered as not found (404), forbidden
\* (403), otherwise unreachable or not a folder ends with a notice that
\* names that case, and the step that ends it leaves the vault, the remote
\* store, the folder cache and lastSyncTime as they were; the run has issued
\* no transfer, folder or delete call and takes no further step.
ResponseCase(response) ==
    IF response.status = 404 THEN "not-found"
    ELSE IF response.status = 403 THEN "forbidden"
    ELSE IF response.status = 200 THEN "not-a-folder"
    ELSE "unreachable"

NoticeCase(notice) ==
    IF notice = "Google Drive sync failed: Google Drive folder not found. "
                \o "Please check your Folder ID in settings."
    THEN "not-found"
    ELSE IF notice = "Google Drive sync failed: Access denied to Google Drive "
                     \o "folder. Please check permissions."
    THEN "forbidden"
    ELSE IF notice = "Google Drive sync failed: The specified ID is not a "
                     \o "Google Drive folder."
    THEN "not-a-folder"
    ELSE IF notice = "Google Drive sync failed: Failed to access Google Drive "
                     \o "folder: 500"
    THEN "unreachable"
    ELSE "none"

C17_InvalidRootAbortsUntouched ==
    /\ [](\A r \in Runs :
             runs[r].outcome = "invalid"
             => /\ runs[r].pc = "done"
                /\ runs[r].ops = <<>> /\ runs[r].verdicts = <<>>
                /\ runs[r].response \in ErrorResponses
                /\ NoticeCase(runs[r].notice) = ResponseCase(runs[r].response))
    /\ [][\A r \in Runs :
             /\ (runs[r].outcome # "invalid" /\ runs'[r].outcome = "invalid")
                => /\ vault' = vault /\ drive' = drive /\ nextId' = nextId
                   /\ folderIdCache' = folderIdCache
                   /\ settings' = settings
             /\ runs[r].outcome = "invalid" => runs'[r] = runs[r]]_vars

\* A run has ended on a failed validation when an earlier run had filled the
\* folder cache, uploaded a file and set the watermark
C17_Witness ==
    \E r \in Runs :
        /\ runs[r].outcome = "invalid"
        /\ folderIdCache # EmptyMap
        /\ settings.lastSyncTime > 0
        /\ \E i \in Ids : drive[i].kind = "file"

\* ---------------------------------------------------------------- C14
\* C14: however many listener sets are registered, at most one debounce
\* callback is pending; a create, modify or delete notification leaves
\* exactly one, due 5000 ms later; and a run that the callback starts begins
\* no earlier than 5000 ms after the last notification and leaves no
\* callback pending, so a burst of notifications starts one run.
VaultEvent == vault' # vault /\ edits' = edits - 1

RunStarts == \E r \in Runs : runs[r].pc = "idle" /\ runs'[r].pc # "idle"

C15_TeardownCancelsTimers ==
    /\ [](~timers.loaded => (~timers.interval /\ timers.timeout = 0))
    /\ [][~timers.loaded => (~timers'.loaded /\ ~RunStarts)]_vars

\* The plugin is unloaded and a run that was in flight has reached its commit
C15_Witness ==
    /\ ~timers.loaded
    /\ \E r \in Runs : runs[r].pc = "commit" /\ runs[r].ops # <<>>

\* ---------------------------------------------------------------- C18
\* C18: a call of performSync made while the refresh token or the folder id
\* is missing ends at once with the notice that asks for them: it requests
\* no token, issues no remote call, writes nothing locally, and leaves
\* lastSyncTime, the folder cache and the status bar with its animation as
\* they were.
Unconfigured == ~settings.refreshToken \/ ~settings.folderId

C18_UnconfiguredRunDoesNotStart ==
    /\ [](\A r \in Runs :
             runs[r].outcome = "unconfigured"
             => /\ runs[r].pc = "done"
                /\ runs[r].ops = <<>> /\ runs[r].verdicts = <<>>
                /\ runs[r].notice = "Please authenticate and set Folder ID in settings")
    /\ [][\A r \in Runs :
             /\ (runs[r].pc = "idle" /\ runs'[r].pc # "idle" /\ Unconfigured)
                => /\ runs'[r].outcome = "unconfigured"
                   /\ vault' = vault /\ drive' = drive /\ nextId' = nextId
                   /\ folderIdCache' = folderIdCache
                   /\ settings' = settings
                   /\ statusBar' = statusBar
             /\ runs[r].outcome = "unconfigured" => runs'[r] = runs[r]]_vars

\* A call has ended on the configuration check after an earlier run had
\* filled the folder cache and set the watermark
C18_Witness ==
    \E r \in Runs :
        /\ runs[r].outcome = "unconfigured"
        /\ folderIdCache # EmptyMap
        /\ settings.lastSyncTime > 0
        /\ ~statusBar.animation

\* ---------------------------------------------------------------- C19
\* C19: when no run is in flight and the run that ended last ended on an
\* error or on a failed validation the status bar reads 'Sync failed', and
\* the status bar reads 'Syncing...' only while a run is in flight.
EndedLast(r) == runs[r].pc = "done" /\ \A x \in Runs : x > r => runs[x].pc = "idle"

C19_StatusAfterError ==
    /\ statusBar.text = "Syncing..." => Running # {}
    /\ \A r \in Runs :
          (Quiet /\ EndedLast(r) /\ Failed(r)) => statusBar.text = "Sync failed"

\* ---------------------------------------------------------------- C21
\* C21: when a run reaches its commit, every path that its listing shows and
\* its vault snapshot does not has been decided: 'download' when the remote
\* mtime exceeds the watermark the run read by more than SLACK; otherwise
\* 'delete-remote' when toDrive is set, whatever fromDrive is, and no
\* decision other than skip only when toDrive is clear.
RemoteOnly(run) ==
    {k \in 1..Len(run.driveFiles) :
        vaultFileMapGet(run.vaultFiles, run.driveFiles[k].path) = NoEntry}

C21_RemoteOnlyRule ==
    \A r \in Runs :
        LET run == runs[r] IN
        run.pc = "commit" =>
            \A k \in RemoteOnly(run) :
                LET driveFile == run.driveFiles[k] IN
                IF driveFile.mtime > run.lastSync + SLACK
                THEN VerdictsOn(run, {"drive"}, driveFile.path, {"download"}) # {}
                ELSE IF run.toDrive
                THEN VerdictsOn(run, {"drive"}, driveFile.path, {"delete-remote"}) # {}
                ELSE VerdictsOn(run, Loops, driveFile.path, Acting) = {}

\* ---------------------------------------------------------------- C22
\* C22: for a path that both snapshots of a run show: when only the local
\* mtime exceeds the watermark by more than SLACK and toDrive is set, the
\* step of the vault loop updates the listed remote file in place (same id,
\* local content, no new remote object, local file untouched); when only the
\* remote mtime exceeds it and fromDrive is set, the step of the drive loop
\* downloads the listed remote file over the local file and leaves the remote
\* store alone; when neither exceeds it, the run issues no call on the path.
InBoth(run, p) ==
    /\ vaultFileMapGet(run.vaultFiles, p) # NoEntry
    /\ driveFileMapGet(run.driveFiles, p) # NoEntry

LastOp(run) == run.ops[Len(run.ops)]

C22_SingleSideChange ==
    /\ [](\A r \in Runs : \A p \in Paths :
             (/\ InBoth(runs[r], p)
              /\ ~ChangedIn(runs[r].vaultFiles, p, runs[r].lastSync)
              /\ ~ChangedIn(runs[r].driveFiles, p, runs[r].lastSync))
             => /\ OpsOn(runs[r], p, Transfers \cup {"resolve", "modal"}) = {}
                /\ VerdictsOn(runs[r], Loops, p, Kinds \ {"skip"}) = {})
    /\ [][\A r \in Runs :
            LET run == runs[r]
                file == run.vaultFiles[run.i]
                driveFile == driveFileMapGet(run.driveFiles, file.path)
            IN (/\ run.pc = "vault" /\ run.i <= Len(run.vaultFiles)
                /\ runs'[r] # run
                /\ faults' = faults
                /\ run.toDrive
                /\ driveFile # NoEntry
                /\ file.mtime > run.lastSync + SLACK
                /\ driveFile.mtime <= run.lastSync + SLACK
                /\ vault[file.path] # NoFile
                /\ drive[driveFile.id].kind = "file")
               => /\ drive'[driveFile.id] =
                       [drive[driveFile.id] EXCEPT
                           !.content = vault[file.path].content, !.mtime = now]
                  /\ \A i \in Ids \ {driveFile.id} : drive'[i] = drive[i]
                  /\ nextId' = nextId
                  /\ vault' = vault
                  /\ Len(runs'[r].ops) = Len(run.ops) + 1
                  /\ LastOp(runs'[r]) = [op |-> "update", path |-> file.path,
                                          id |-> driveFile.id, ok |-> TRUE]
                  /\ runs'[r].uploaded = run.uploaded + 1]_vars
    /\ [][\A r \in Runs :
            LET run == runs[r]
                driveFile == run.driveFiles[run.i]
                vaultFile == vaultFileMapGet(run.vaultFiles, driveFile.path)
            IN (/\ run.pc = "drive" /\ run.i <= Len(run.driveFiles)
                /\ runs'[r] # run
                /\ faults' = faults
                /\ run.fromDrive
                /\ vaultFile # NoEntry
                /\ driveFile.mtime > run.lastSync + SLACK
                /\ vaultFile.mtime <= run.lastSync + SLACK
                /\ drive[driveFile.id].kind = "file")
               => /\ vault'[driveFile.path] =
                       [mtime |-> now, content |-> drive[driveFile.id].content]
                  /\ drive' = drive
                  /\ nextId' = nextId
                  /\ Len(runs'[r].ops) > Len(run.ops)
                  /\ OpsOn(runs'[r], driveFile.path, Transfers)
                        = OpsOn(run, driveFile.path, Transfers) \cup {Len(runs'[r].ops)}
                  /\ LastOp(runs'[r]) = [op |-> "download", path |-> driveFile.path,
                                          id |-> driveFile.id, ok |-> TRUE]
                  /\ runs'[r].downloaded = run.downloaded + 1]_vars

\* One run has updated the remote file in place after a local change and
\* committed; the next has downloaded the same remote file after a remote
\* change; the remote store still holds the two objects it began with.
C22_Witness ==
    \E r1, r2 \in Runs : \E p \in Paths : \E id \in Ids :
        /\ r1 # r2
        /\ Succeeded(r1)
        /\ runs[r1].ops = << [op |-> "update", path |-> p, id |-> id, ok |-> TRUE] >>
        /\ runs[r2].pc = "commit"
        /\ InBoth(runs[r2], p)
        /\ runs[r2].ops # <<>>
        /\ LastOp(runs[r2]) = [op |-> "download", path |-> p, id |-> id, ok |-> TRUE]
        /\ Cardinality(OpsOn(runs[r2], p, Transfers)) = 1
        /\ vault[p].content = drive[id].content
        /\ nextId = 3

\* ---------------------------------------------------------------- C23
\* C23: when the vault loop compares a path changed on both sides and no call
\* fails, the answer is: not identical when the two sizes differ; else
\* identical when the size is zero; else identical when the type is binary,
\* whatever the contents; else identical exactly when the digests of the
\* local and the remote content are equal.
OracleSays(vaultSize, driveSize, binary, localContent, remoteContent) ==
    IF vaultSize # driveSize THEN FALSE
    ELSE IF vaultSize = 0 /\ driveSize = 0 THEN TRUE
    ELSE IF binary THEN TRUE
    ELSE md5(localContent) = md5(remoteContent)

C23_OraclePolicy ==
    [][\A r \in Runs :
          LET run == runs[r]
              file == run.vaultFiles[run.i]
              driveFile == driveFileMapGet(run.driveFiles, file.path)
          IN (/\ run.pc = "vault" /\ run.i <= Len(run.vaultFiles)
              /\ runs'[r] # run
              /\ faults' = faults
              /\ run.toDrive
              /\ driveFile # NoEntry
              /\ file.mtime > run.lastSync + SLACK
              /\ driveFile.mtime > run.lastSync + SLACK
              /\ vault[file.path] # NoFile
              /\ drive[driveFile.id].kind = "file")
             => runs'[r].verdicts =
                   Append(run.verdicts,
                          [loop |-> "vault", path |-> file.path,
                           kind |-> IF OracleSays(
                                          file.size, driveFile.size,
                                          isBinaryFile(getMimeType(file.path.ext)),
                                          vault[file.path].content,
                                          drive[driveFile.id].content)
                                    THEN "identical" ELSE "conflict"])]_vars

\* A binary file whose two sides have the same size and different contents
\* has been decided identical
C23_Witness ==
    \E r \in Runs : \E i \in Ids :
        /\ VerdictsOn(runs[r], {"vault"}, FileC, {"identical"}) # {}
        /\ vault[FileC] # NoFile
        /\ drive[i].kind = "file"
        /\ Size(vault[FileC].content) = Size(drive[i].content)
        /\ Size(vault[FileC].content) > 0
        /\ vault[FileC].content # drive[i].content

\* ---------------------------------------------------------------- C24
\* C24: when the vault loop compares a text file changed on both sides, of
\* equal size on both, and the comparison fails - the local file is gone when
\* it is read, or the download of the remote content fails although the two
\* contents are equal - the step decides 'conflict', calls the Resolver,
\* counts the conflict and the run goes on; and no step on a path changed on
\* both sides decides skip.
C24_OracleFailSafe ==
    [][\A r \in Runs :
          LET run == runs[r]
              file == run.vaultFiles[run.i]
              driveFile == driveFileMapGet(run.driveFiles, file.path)
              readFails == vault[file.path] = NoFile /\ faults' = faults
              downloadFails ==
                  /\ vault[file.path] # NoFile
                  /\ vault[file.path].content = drive[driveFile.id].content
                  /\ faults' # faults
          IN (/\ run.pc = "vault" /\ run.i <= Len(run.vaultFiles)
              /\ runs'[r] # run
              /\ run.toDrive
              /\ driveFile # NoEntry
              /\ file.mtime > run.lastSync + SLACK
              /\ driveFile.mtime > run.lastSync + SLACK
              /\ drive[driveFile.id].kind = "file")
             => /\ \A k \in 1..Len(runs'[r].verdicts) :
                      k > Len(run.verdicts) => runs'[r].verdicts[k].kind # "skip"
                /\ (/\ ~isBinaryFile(getMimeType(file.path.ext))
                    /\ file.size = driveFile.size /\ file.size > 0
                    /\ readFails \/ downloadFails)
                   => /\ runs'[r].verdicts =
                           Append(run.verdicts, [loop |-> "vault", path |-> file.path,
                                                 kind |-> "conflict"])
                      /\ \E k \in 1..Len(runs'[r].ops) :
                            /\ k > Len(run.ops)
                            /\ runs'[r].ops[k].op = "resolve"
                            /\ runs'[r].ops[k].path = file.path
                      /\ runs'[r].pc = "vault"
                      /\ runs'[r].i = run.i + 1
                      /\ runs'[r].conflicts = run.conflicts + 1]_vars

\* A run under keep-local has ended without an error after counting a
\* conflict on a text file whose two contents are equal: the download of the
\* comparison had failed
C24_Witness ==
    \E r \in Runs : \E i \in Ids :
        /\ Succeeded(r)
        /\ settings.conflictResolution = "keep-local"
        /\ runs[r].conflicts = 1
        /\ OpsOn(runs[r], FileB, {"resolve"}) # {}
        /\ vault[FileB] # NoFile
        /\ drive[i].kind = "file"
        /\ vault[FileB].content = drive[i].content
        /\ Size(vault[FileB].content) > 0
        /\ faults = 0

\* ---------------------------------------------------------------- C25
\* C25: under keep-local, when a run that decided 'conflict' on a path has
\* ended without an error and the next run begins with no outside change in
\* between, the next run decides nothing but skip on that path, calls neither
\* the Resolver nor a transfer for it, and reaches its commit with the path
\* decided skip while the two contents still differ (no call having failed).
C25_KeepLocalNotReraised ==
    \A r \in Runs : \A p \in Paths :
        (/\ r + 1 \in Runs
         /\ settings.conflictResolution = "keep-local"
         /\ Succeeded(r)
         /\ VerdictsOn(runs[r], {"vault"}, p, {"conflict"}) # {}
         /\ runs[r + 1].pc # "idle"
         /\ runs[r + 1].editsAtStart = runs[r].editsAtStart)
        => /\ VerdictsOn(runs[r + 1], Loops, p, Kinds \ {"skip"}) = {}
           /\ OpsOn(runs[r + 1], p, Transfers \cup {"resolve", "modal", "mkdir"}) = {}
           /\ runs[r + 1].pc = "commit"
                 => /\ VerdictsOn(runs[r + 1], {"vault"}, p, {"skip"}) # {}
                    /\ runs[r + 1].fromDrive
                          => VerdictsOn(runs[r + 1], {"drive"}, p, {"skip"}) # {}
                    /\ faults = MaxFaults
                          => /\ vault[p] # NoFile
                             /\ \E id \in RemoteIdsAt(drive, p) :
                                   drive[id].content # vault[p].content

\* The run after a conflict kept local is at its commit, bidirectional, with
\* the path decided skip in both loops and the two contents different
C25_Witness ==
    \E r \in Runs : \E p \in Paths :
        /\ r + 1 \in Runs
        /\ settings.conflictResolution = "keep-local"
        /\ Succeeded(r)
        /\ VerdictsOn(runs[r], {"vault"}, p, {"conflict"}) # {}
        /\ runs[r + 1].pc = "commit"
        /\ runs[r + 1].toDrive /\ runs[r + 1].fromDrive
        /\ runs[r + 1].editsAtStart = runs[r].editsAtStart
        /\ VerdictsOn(runs[r + 1], {"vault"}, p, {"skip"}) # {}
        /\ VerdictsOn(runs[r + 1], {"drive"}, p, {"skip"}) # {}
        /\ vault[p] # NoFile
        /\ \E id \in RemoteIdsAt(drive, p) : drive[id].content # vault[p].content

\* ---------------------------------------------------------------- C26
\* C26: under keep-local the step of the vault loop that decides 'conflict'
\* on a path changes neither the local store nor the remote store, allocates
\* no remote id, opens no modal, and logs no call but that of the Resolver,
\* whether or not a call fails.
C26_KeepLocalFrame ==
    [][\A r \in Runs :
          LET run == runs[r]
              file == run.vaultFiles[run.i]
          IN (/\ run.pc = "vault" /\ run.i <= Len(run.vaultFiles)
              /\ settings.conflictResolution = "keep-local"
              /\ Len(runs'[r].verdicts) = Len(run.verdicts) + 1
              /\ runs'[r].verdicts[Len(runs'[r].verdicts)] =
                    [loop |-> "vault", path |-> file.path, kind |-> "conflict"])
             => /\ vault' = vault
                /\ drive' = drive
                /\ nextId' = nextId
                /\ modals' = modals
                /\ runs'[r].ops =
                      Append(run.ops, [op |-> "resolve", path |-> file.path,
                                       id |-> driveFileMapGet(run.driveFiles,
                                                              file.path).id,
                                       ok |-> TRUE])
                /\ runs'[r].uploaded = run.uploaded
                /\ runs'[r].downloaded = run.downloaded]_vars

\* A run under keep-local has ended without an error after a conflict on a
\* path whose two contents differ, with nothing transferred
C26_Witness ==
    \E r \in Runs : \E p \in Paths :
        /\ settings.conflictResolution = "keep-local"
        /\ Succeeded(r)
        /\ runs[r].conflicts = 1
        /\ runs[r].uploaded = 0 /\ runs[r].downloaded = 0
        /\ OpsOn(runs[r], p, {"resolve"}) # {}
        /\ OpsOn(runs[r], p, Transfers) = {}
        /\ vault[p] # NoFile
        /\ \E id \in RemoteIdsAt(drive, p) : drive[id].content # vault[p].content
        /\ faults = MaxFaults

\* ---------------------------------------------------------------- C27
\* C27: under keep-remote, the step of the vault loop that decides 'conflict'
\* on a path and in which no call fails calls the Resolver, then mkdir for
\* every prefix of the path's local folder, then writes the content of the
\* listed remote file to the local file at the same path; the remote store
\* is left as it was, no other local file changes, and after the step the
\* local content equals the remote content.
RECURSIVE LocalMkdirs(_, _)
LocalMkdirs(segments, k) ==
    IF k > Len(segments) THEN <<>>
    ELSE << [op |-> "localMkdir", path |-> FolderKey(SubSeq(segments, 1, k)),
             id |-> NoId, ok |-> TRUE] >> \o LocalMkdirs(segments, k + 1)

C27_KeepRemoteDownloads ==
    [][\A r \in Runs :
          LET run == runs[r]
              file == run.vaultFiles[run.i]
              driveFile == driveFileMapGet(run.driveFiles, file.path)
          IN (/\ run.pc = "vault" /\ run.i <= Len(run.vaultFiles)
              /\ settings.conflictResolution = "keep-remote"
              /\ faults' = faults
              /\ Len(runs'[r].verdicts) = Len(run.verdicts) + 1
              /\ runs'[r].verdicts[Len(runs'[r].verdicts)] =
                    [loop |-> "vault", path |-> file.path, kind |-> "conflict"]
              /\ driveFile # NoEntry
              /\ drive[driveFile.id].kind = "file")
             => /\ vault'[file.path] =
                      [mtime |-> now, content |-> drive[driveFile.id].content]
                /\ \A p \in Paths \ {file.path} : vault'[p] = vault[p]
                /\ drive' = drive
                /\ nextId' = nextId
                /\ vault'[file.path].content = drive'[driveFile.id].content
                /\ runs'[r].ops =
                      run.ops
                      \o << [op |-> "resolve", path |-> file.path,
                             id |-> driveFile.id, ok |-> TRUE] >>
                      \o LocalMkdirs(DirOf(file.path), 1)
                      \o << [op |-> "download", path |-> file.path,
                             id |-> driveFile.id, ok |-> TRUE] >>]_vars

\* A run under keep-remote has ended without an error after a conflict on a
\* file in a folder: the remote version was downloaded over the local one,
\* no call failed, and the two contents are now equal
C27_Witness ==
    \E r \in Runs : \E p \in Paths : \E id \in Ids :
        /\ settings.conflictResolution = "keep-remote"
        /\ Succeeded(r)
        /\ runs[r].conflicts = 1
        /\ DirOf(p) # <<>>
        /\ OpsOn(runs[r], FolderKey(DirOf(p)), {"localMkdir"}) # {}
        /\ runs[r].ops[Len(runs[r].ops)] =
              [op |-> "download", path |-> p, id |-> id, ok |-> TRUE]
        /\ vault[p] # NoFile
        /\ drive[id].kind = "file"
        /\ vault[p].content = drive[id].content
        /\ faults = MaxFaults

\* ---------------------------------------------------------------- C28
\* C28: a run does not commit the watermark while a ConflictModal that it
\* opened is still open, and no transfer is logged for a run after it has
\* ended: the upload or download of a conflict's continuation comes before
\* the commit of the run that raised the conflict.
C28_TransfersBeforeCommit ==
    [][\A r \in Runs :
          /\ Commits(r) => \A m \in modals : m.run # r
          /\ runs[r].pc = "done" => runs'[r].ops = runs[r].ops]_vars

\* ---------------------------------------------------------------- C29
\* C29: a ConflictModal leaves the set of open modals only in a step that
\* runs exactly one of its two continuations, once: the step logs, for the
\* run that opened it, one update of the listed remote file or one download
\* of it, never both and never neither (an upload whose local file is gone
\* fails before its call).
Continued(m) ==
    LET before == runs[m.run].ops
        after  == runs'[m.run].ops
    IN {k \in 1..Len(after) :
           /\ k > Len(before)
           /\ after[k].op \in {"update", "download"}
           /\ after[k].path = m.driveFile.path
           /\ after[k].id = m.driveFile.id}

C29_ArbitrationConsumedOnce ==
    [][\A m \in modals :
          m \notin modals'
          => \/ Cardinality(Continued(m)) = 1
             \/ vault[m.driveFile.path] = NoFile /\ Continued(m) = {}]_vars

\* ---------------------------------------------------------------- C30
\* C30: while a run is between its folderIdCache.clear() and its end, every
\* entry of folderIdCache stays, bound to the same folder id, whatever other
\* runs and the continuations of modals do; and the cache never holds the
\* empty path, which resolves to the configured root folder.
Working == {"list", "uploadToken", "vault", "downloadToken", "drive", "commit"}

C30_FolderIndexStable ==
    /\ [](<<>> \notin DOMAIN folderIdCache)
    /\ [][\A r \in Runs :
             (runs[r].pc \in Working /\ runs'[r].pc \in Working)
             => \A d \in DOMAIN folderIdCache :
                   /\ d \in DOMAIN folderIdCache'
                   /\ folderIdCache'[d] = folderIdCache[d]]_vars

\* ---------------------------------------------------------------- C31
\* C31: a folder search or a folder creation that fails is the last call of
\* its run and the run ends with an error: no folder is created in place of
\* the one that could not be looked up and no file is uploaded after it.
C31_MaterializerFailsClosed ==
    \A r \in Runs : \A k \in 1..Len(runs[r].ops) :
        (runs[r].ops[k].op \in {"find", "mkdir"} /\ ~runs[r].ops[k].ok)
        => k = Len(runs[r].ops) /\ Failed(r)

\* ---------------------------------------------------------------- C32
\* The decision of a loop on one entry as the two snapshots of the run and
\* the watermark the run began with give it; a path changed on both sides is
\* 'both', whatever the comparison of the contents then says.
SnapshotDecision(run, loop, file, driveFile) ==
    LET vaultChanged == file # NoEntry /\ file.mtime > run.startSync + SLACK
        driveChanged == driveFile # NoEntry
                        /\ driveFile.mtime > run.startSync + SLACK
    IN IF loop = "vault"
       THEN IF ~run.toDrive THEN "skip"
            ELSE IF driveFile = NoEntry THEN "upload"
            ELSE IF vaultChanged /\ driveChanged THEN "both"
            ELSE IF vaultChanged THEN "upload"
            ELSE "skip"
       ELSE IF file = NoEntry
            THEN IF driveChanged THEN "download"
                 ELSE IF run.toDrive THEN "delete-remote"
                 ELSE "skip"
            ELSE IF driveChanged /\ vaultChanged THEN "skip"
            ELSE IF driveChanged THEN "download"
            ELSE "skip"

DecisionClass(kind) == IF kind \in {"identical", "conflict"} THEN "both" ELSE kind

\* C32: the decision a run takes on a path is the one that the run's local
\* snapshot, its remote snapshot and the watermark at the start of the run
\* give: no transfer of the same run, no commit of another run and nothing
\* else that happens after the snapshots changes it.
C32_SnapshotIsolation ==
    [][\A r \in Runs :
          LET run == runs[r] IN
          (/\ run.pc \in {"vault", "drive"}
           /\ Len(runs'[r].verdicts) = Len(run.verdicts) + 1)
          => LET v == runs'[r].verdicts[Len(runs'[r].verdicts)]
                 file == IF v.loop = "vault" THEN run.vaultFiles[run.i]
                         ELSE vaultFileMapGet(run.vaultFiles, v.path)
                 driveFile == IF v.loop = "drive" THEN run.driveFiles[run.i]
                              ELSE driveFileMapGet(run.driveFiles, v.path)
             IN DecisionClass(v.kind)
                    = SnapshotDecision(run, v.loop, file, driveFile)]_vars

\* ---------------------------------------------------------------- C33
\* Run r2 ended with a commit and had path p in the vault: p was in its vault
\* snapshot, or a download of the run wrote it.
LocalAtEndOf(r2, p) ==
    /\ Succeeded(r2)
    /\ \/ VerdictsOn(runs[r2], {"vault"}, p, Kinds) # {}
       \/ \E k \in OpsOn(runs[r2], p, {"download"}) : runs[r2].ops[k].ok

\* C33: a run issues a DELETE for a remote file only if a file at that path
\* was in the vault at the end of an earlier run that committed; a remote
\* file that was never in the vault is not deleted.
C33_DeleteOnlyAfterLocalDeletion ==
    \A r \in Runs : \A k \in 1..Len(runs[r].ops) :
        runs[r].ops[k].op = "delete"
        => \E r2 \in Runs : r2 < r /\ LocalAtEndOf(r2, runs[r].ops[k].path)

\* ---------------------------------------------------------------- C34
\* C34: no two remote objects have the same name and the same parent, so a
\* relative path denotes at most one remote object, whatever the interleaving
\* of the runs and of the continuations of the modals.
C34_NoDuplicateRemoteObjects ==
    \A i \in Ids : \A j \in Ids :
        (/\ i # j
         /\ drive[i].kind # "none"
         /\ drive[j].kind # "none"
         /\ drive[i].parent = drive[j].parent)
        => ~(drive[i].base = drive[j].base /\ drive[i].ext = drive[j].ext)

\* ---------------------------------------------------------------- C35
\* C35: no step of a run and no continuation of a modal removes a file from
\* the vault; a vault file that the listing does not show is decided
\* 'upload' when toDrive is set; and a vault file is written only by a
\* successful download of the remote file listed at the same path, whose
\* content it then has.
C35_NeverDeletesLocal ==
    [][edits' = edits =>
          \A p \in Paths :
              /\ vault[p] # NoFile => vault'[p] # NoFile
              /\ vault'[p] # vault[p] =>
                    \E r \in Runs :
                    \E n \in (Len(runs[r].ops) + 1)..Len(runs'[r].ops) :
                        LET call == runs'[r].ops[n] IN
                        /\ call.op = "download" /\ call.ok /\ call.path = p
                        /\ drive[call.id].kind = "file"
                        /\ vault'[p].content = drive[call.id].content
              /\ \A r \in Runs :
                    LET run == runs[r] IN
                    (/\ run.pc = "vault" /\ run.i <= Len(run.vaultFiles)
                     /\ run.toDrive
                     /\ run.vaultFiles[run.i].path = p
                     /\ driveFileMapGet(run.driveFiles, p) = NoEntry
                     /\ runs'[r] # run)
                    => /\ Len(runs'[r].verdicts) = Len(run.verdicts) + 1
                       /\ runs'[r].verdicts[Len(runs'[r].verdicts)]
                              = [loop |-> "vault", path |-> p, kind |-> "upload"]
       ]_vars

\* A run that began with a watermark has created on Drive a file that its
\* listing did not show and that was not modified in the vault since the
\* watermark; the file is still in the vault.
C35_Witness ==
    \E r \in Runs : \E k \in 1..Len(runs[r].ops) :
        LET call == runs[r].ops[k] IN
        /\ runs[r].startSync > 0
        /\ call.op = "create" /\ call.ok
        /\ vault[call.path] # NoFile
        /\ vault[call.path].mtime <= runs[r].startSync + SLACK

\* ---------------------------------------------------------------- C36
\* Paths that run r has transferred itself: a create, an update or a download
\* of the path succeeded and the run left no modal for the path
TransferredBy(r) ==
    {p \in Paths :
        /\ OpsOn(runs[r], p, {"modal"}) = {}
        /\ \E k \in OpsOn(runs[r], p, {"create", "update", "download"}) :
              runs[r].ops[k].ok}

\* C36: when a run has ended with an error after transfers and the next run
\* starts with no change from outside in between, no step of the next run
\* raises a conflict on a path the failed run has transferred or issues a
\* transfer for it.
C36_RetryAfterAbort ==
    [][\A r \in Runs : (r + 1) \in Runs =>
          LET aborted == runs[r]
              retry   == runs[r + 1]
          IN (/\ Failed(r) /\ aborted.outcome = "error"
              /\ retry.pc \in {"vault", "drive"}
              /\ retry.editsAtStart = aborted.editsAtStart
              /\ edits = retry.editsAtStart)
             => \A p \in TransferredBy(r) :
                   /\ VerdictsOn(runs'[r + 1], Loops, p, {"conflict"})
                          = VerdictsOn(retry, Loops, p, {"conflict"})
                   /\ OpsOn(runs'[r + 1], p, Transfers)
                          = OpsOn(retry, p, Transfers)]_vars

\* ---------------------------------------------------------------- C37
\* Run r has left a modal for path p, the modal has been answered and the
\* upload or download of the answer has succeeded
Arbitrated(r, p) ==
    /\ \A m \in modals : ~(m.run = r /\ m.driveFile.path = p)
    /\ \E k \in OpsOn(runs[r], p, {"modal"}) :
       \E j \in OpsOn(runs[r], p, {"create", "update", "download"}) :
           j > k /\ runs[r].ops[j].ok

\* The two snapshots of a run show path p as the stores hold it now, with
\* the same content on both sides
SeenAsSettled(run, p) ==
    LET file == vaultFileMapGet(run.vaultFiles, p)
        driveFile == driveFileMapGet(run.driveFiles, p)
    IN /\ file # NoEntry /\ driveFile # NoEntry
       /\ vault[p] # NoFile /\ drive[driveFile.id].kind = "file"
       /\ file.mtime = vault[p].mtime
       /\ driveFile.mtime = drive[driveFile.id].mtime
       /\ vault[p].content = drive[driveFile.id].content

\* C37: after the modal of a conflict under 'ask' has been answered and the
\* chosen upload or download is done, with no other change, the next run
\* raises no conflict on the path and issues no upload or download of it.
C37_ArbitrationSettles ==
    [][\A r \in Runs : (r + 1) \in Runs =>
          \A p \in Paths :
              (/\ runs[r].pc = "done"
               /\ Arbitrated(r, p)
               /\ runs[r + 1].pc \in {"vault", "drive"}
               /\ runs[r + 1].editsAtStart = edits
               /\ OpsOn(runs[r + 1], p, {"modal"}) = {}
               /\ SeenAsSettled(runs[r + 1], p))
              => /\ VerdictsOn(runs'[r + 1], Loops, p, {"conflict"})
                       = VerdictsOn(runs[r + 1], Loops, p, {"conflict"})
                 /\ OpsOn(runs'[r + 1], p, Transfers)
                       = OpsOn(runs[r + 1], p, Transfers)]_vars

\* ---------------------------------------------------------------- C38
\* C38: while the plugin is loaded, when autoSync is on and the refresh
\* token and the folder id are set the periodic timer is set and the
\* listeners of the vault events are registered, also right after
\* authenticate has stored a refresh token; and when autoSync is off neither
\* the periodic timer nor a debounce callback is pending.
C38_AutoSyncArmed ==
    timers.loaded =>
        /\ (settings.autoSync /\ settings.refreshToken /\ settings.folderId)
              => (timers.interval /\ timers.listeners > 0)
        /\ ~settings.autoSync => (~timers.interval /\ timers.timeout = 0)

\* ---------------------------------------------------------------- C39
\* C39: a run that found lastSyncTime = 0 when it started issues no DELETE,
\* whatever its direction flags and whatever the two stores hold (every
\* remote modification time is later than 2000 ms).
C39_FirstSyncNeverDeletes ==
    \A r \in Runs :
        runs[r].startSync = 0 => \A p \in Paths : OpsOn(runs[r], p, {"delete"}) = {}

====
